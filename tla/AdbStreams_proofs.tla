-------------------------- MODULE AdbStreams_proofs --------------------------
(***************************************************************************)
(* Proofs about AdbStreams, for any number of operations on a connection   *)
(* and of pieces of an output or a file.                                   *)
(***************************************************************************)
EXTENDS AdbStreams, Integers, TLAPS

(* What the types do not say of the messages, and of the operation. *)
Sound ==
    /\ op # "none" => nextLocal > 1
    /\ op = "none" => remote = NoId
    /\ stage = "idle" <=> op = "none"
    /\ stage = "output" <=> op = "shell"
    /\ \A i \in 1..Len(toGuest) : toGuest[i].cmd = "OPEN" =>
           toGuest[i].from \in Ids /\ toGuest[i].data \in {"shell", "sync"}
    /\ \A i \in 1..Len(toHost) : toHost[i].cmd = "WRTE" => toHost[i].from \in Ids
    /\ Len(output) <= MaxChunks \/ op # "push"

(* What the guest is still to take, on a clean connection: acknowledgments *)
(* and at most the client's last message.                                  *)
Settled == \A i \in 1..Len(toGuest) : toGuest[i].cmd = "OKAY"
Pending(m) ==
    /\ toGuest # <<>> /\ toGuest[Len(toGuest)] = m
    /\ \A i \in 1..(Len(toGuest) - 1) : toGuest[i].cmd = "OKAY"

Opening == Message("OPEN", Local, 0, IF op = "shell" THEN "shell" ELSE "sync", 0)
Asking == Message("WRTE", Local, Local, request, 0)

(* No stream but the operation's is open, and none was used before it. *)
Alone ==
    /\ \A l \in Ids : l # Local => ~OpenAt(l)
    /\ \A l \in Ids : l > Local => guest[l] = NoStream
    /\ op = "none" => Settled /\ toHost = <<>> /\ \A l \in Ids : ~OpenAt(l)

(* The output so far is what the stream carried so far. *)
InOrder == \A i \in 1..Len(output) : output[i] = <<Local, i>>

(* Of an operation whose stream is not open yet. *)
NotOpen ==
    /\ remote = NoId /\ output = <<>> /\ guest[Local] = NoStream
    /\ \/ Pending(Opening) /\ toHost = <<>>
       \/ Settled /\ toHost = <<Close(0, Local)>>

(* A command's stream: its OKAY, the text not read yet, its end. *)
First == IF remote = NoId THEN 1 ELSE 0
Unread == guest[Local].said - Len(output)
Text(i) == Message("WRTE", Local, Local, "text", i)
End == IF guest[Local].service = "closed" THEN 1 ELSE 0
ShellMessage(i) ==
    IF i <= First THEN Ack(Local, Local)
    ELSE IF i <= First + Unread THEN Text(Len(output) + i - First)
    ELSE Close(Local, Local)
ShellStream ==
    /\ remote \in {NoId, Local}
    /\ remote = NoId => output = <<>>
    /\ Settled /\ InOrder /\ Unread >= 0
    /\ guest[Local].service \in {"shell", "closed"}
    /\ guest[Local].replies = <<>>
    /\ Len(toHost) = First + Unread + End
    /\ \A i \in 1..Len(toHost) : toHost[i] = ShellMessage(i)

SyncOpen ==
    /\ Settled /\ toHost = <<Ack(Local, Local)>>
    /\ remote = NoId /\ output = <<>>
    /\ guest[Local].service = "sync" /\ guest[Local].said = 0 /\ guest[Local].replies = <<>>

(* A request is in flight, or its acknowledgment is, or neither. *)
Exchange ==
    /\ remote = Local
    /\ guest[Local].service = "sync"
    /\ InOrder
    /\ \/ stage = "ack" /\ Pending(Asking)
       \/ Settled
    /\ stage = "reply" => request \in {"DONE", "RECV"}
    /\ \A i \in 1..Len(toHost) :
           /\ toHost[i].to = Local /\ toHost[i].from = Local
           /\ toHost[i].cmd \in {"OKAY", "WRTE"}

OneAck ==
    \A i \in 1..Len(toHost) : toHost[i].cmd = "OKAY" =>
        /\ stage = "ack" /\ Settled
        /\ \A j \in 1..Len(toHost) : toHost[j].cmd = "OKAY" => i = j

(* A push: the guest has what was sent, and says so at the end only. *)
PushStream ==
    /\ request \in {"SEND", "DATA", "DONE"}
    /\ request = "SEND" => output = <<>>
    /\ Len(output) <= MaxChunks
    /\ guest[Local].said =
           IF Settled \/ request # "DATA" THEN Len(output) ELSE Len(output) - 1
    /\ OneAck
    /\ guest[Local].replies \in {<<>>, <<"FAIL">>, <<"OKAY">>}
    /\ guest[Local].replies = <<"OKAY">> => request = "DONE" /\ Settled /\ ~guest[Local].fails
    /\ \A i \in 1..Len(toHost) : toHost[i].cmd = "WRTE" =>
           /\ toHost[i].data \in {"OKAY", "FAIL"}
           /\ toHost[i].data = "OKAY" =>
                  request = "DONE" /\ Settled /\ ~guest[Local].fails /\ guest[Local].replies = <<>>

(* A pull: the acknowledgment, the pieces not read yet, the end. *)
Leading == IF stage = "ack" THEN 1 ELSE 0
Piece(n) == Message("WRTE", Local, Local, "DATA", n)
PullMessage(i) ==
    IF i <= Leading THEN toHost[i] = Ack(Local, Local)
    ELSE IF i <= Leading + Unread THEN toHost[i] = Piece(Len(output) + i - Leading)
    ELSE toHost[i].cmd = "WRTE" /\ toHost[i].data \in {"DONE", "FAIL"}
LastReply(replies) ==
    \A i \in 1..Len(replies) :
        IF i < Len(replies) THEN replies[i] = "DATA" ELSE replies[i] \in {"DONE", "FAIL"}
Pulling ==
    /\ Unread >= 0
    /\ \/ Len(toHost) = Leading + Unread
       \/ Len(toHost) = Leading + Unread + 1 /\ guest[Local].replies = <<>>
    /\ \A i \in 1..Len(toHost) : PullMessage(i)
    /\ LastReply(guest[Local].replies)
    /\ guest[Local].replies # <<>> =>
           guest[Local].said + Len(guest[Local].replies) - 1 <= MaxChunks
NotPulling == toHost = <<>> /\ guest[Local].said = 0 /\ guest[Local].replies = <<>>
PullStream ==
    /\ request = "RECV"
    /\ stage = "ack" => output = <<>>
    /\ IF Settled THEN Pulling ELSE NotPulling

Flow ==
    /\ op = "shell" => NotOpen \/ ShellStream
    /\ stage = "opened" => NotOpen \/ SyncOpen
    /\ stage \in {"ack", "reply"} => Exchange
    /\ stage \in {"ack", "reply"} /\ op = "push" => PushStream
    /\ stage \in {"ack", "reply"} /\ op = "pull" => PullStream

(* What a success has left can change nothing of what it is about. *)
Frozen ==
    op = "none" /\ result.ok /\ result.clean =>
        /\ Local \in Ids
        /\ guest[Local].service # "shell" /\ guest[Local].replies = <<>>
        /\ \A i \in 1..Len(toGuest) :
               toGuest[i].cmd # "OPEN" /\ (toGuest[i].cmd = "WRTE" => toGuest[i].data = "QUIT")

TypeInv == TypeOK /\ Sound
CleanInv == clean => Alone /\ Flow
IInv == TypeInv /\ CleanInv /\ Frozen /\ SuccessIsTrue

------------------------------------------------------------------------------
(* Sequences.                                                              *)

LEMMA TakeOne ==
    ASSUME NEW S, NEW s \in Seq(S), s # <<>>
    PROVE  /\ Len(s) \in Nat \ {0} /\ Head(s) = s[1] /\ Head(s) \in S
           /\ Tail(s) \in Seq(S) /\ Len(Tail(s)) = Len(s) - 1
           /\ \A i \in 1..(Len(s) - 1) : Tail(s)[i] = s[i + 1]
  OBVIOUS

LEMMA AddOne ==
    ASSUME NEW S, NEW s \in Seq(S), NEW m \in S
    PROVE  /\ s \o <<m>> \in Seq(S) /\ Len(s \o <<m>>) = Len(s) + 1
           /\ (s \o <<m>>)[Len(s) + 1] = m
           /\ \A i \in 1..Len(s) : (s \o <<m>>)[i] = s[i]
  OBVIOUS

LEMMA AddTwo ==
    ASSUME NEW S, NEW s \in Seq(S), NEW m \in S, NEW k \in S
    PROVE  /\ s \o <<m, k>> \in Seq(S) /\ Len(s \o <<m, k>>) = Len(s) + 2
           /\ (s \o <<m, k>>)[Len(s) + 1] = m /\ (s \o <<m, k>>)[Len(s) + 2] = k
           /\ \A i \in 1..Len(s) : (s \o <<m, k>>)[i] = s[i]
  OBVIOUS

LEMMA AddThree ==
    ASSUME NEW S, NEW s \in Seq(S), NEW m \in S, NEW k \in S, NEW o \in S
    PROVE  /\ s \o <<m, k, o>> \in Seq(S) /\ Len(s \o <<m, k, o>>) = Len(s) + 3
           /\ (s \o <<m, k, o>>)[Len(s) + 1] = m /\ (s \o <<m, k, o>>)[Len(s) + 2] = k
           /\ (s \o <<m, k, o>>)[Len(s) + 3] = o
           /\ \A i \in 1..Len(s) : (s \o <<m, k, o>>)[i] = s[i]
  OBVIOUS

LEMMA ByPlace ==
    ASSUME NEW S, NEW s \in Seq(S), NEW t \in Seq(S), Len(s) = Len(t),
           \A i \in 1..Len(s) : s[i] = t[i]
    PROVE  s = t
  OBVIOUS

------------------------------------------------------------------------------
(* The types.                                                              *)

(* The messages the client and adbd make. *)
LEMMA Made ==
    ASSUME NEW cmd \in {"OPEN", "OKAY", "WRTE", "CLSE"}, NEW from \in 0..MaxOps,
           NEW to \in 0..MaxOps, NEW n \in 0..MaxChunks,
           NEW data \in Requests \cup Chunks \cup {"", "shell", "sync", "QUIT"}
    PROVE  Message(cmd, from, to, data, n) \in Messages
  BY DEF Message, Messages

LEMMA MadeAcks ==
    ASSUME NEW from \in 0..MaxOps, NEW to \in 0..MaxOps
    PROVE  /\ Ack(from, to) \in Messages /\ Close(from, to) \in Messages
           /\ Ack(from, to).cmd = "OKAY" /\ Close(from, to).cmd = "CLSE"
<1>1. 0 \in 0..MaxChunks /\ "" \in Requests \cup Chunks \cup {"", "shell", "sync", "QUIT"}
  BY BoundsAssumption
<1>2. Ack(from, to) \in Messages
  BY <1>1, Made DEF Ack
<1>3. Close(from, to) \in Messages
  BY <1>1, Made DEF Close
<1> QED
  BY <1>2, <1>3 DEF Ack, Close, Message

(* TypeOK's parts, for the provers. *)
Streams == [service : {"none", "shell", "sync", "closed"}, ready : BOOLEAN,
            replies : Seq(Chunks), said : 0..MaxChunks, fails : BOOLEAN]

LEMMA InitTyped == Init => TypeInv
<1> SUFFICES ASSUME Init PROVE TypeInv
  OBVIOUS
<1>1. NoStream \in Streams
  BY BoundsAssumption DEF NoStream, Streams
<1>2. guest \in [Ids -> Streams]
  BY <1>1 DEF Init
<1>3. TypeOK
  <2>1. remote \in 0..MaxOps /\ nextLocal \in 1..(MaxOps + 1) /\ streams \subseteq Ids
    BY BoundsAssumption DEF Init, NoId
  <2>2. output \in Seq(Ids \X (0..MaxChunks)) /\ toGuest \in Seq(Messages) /\ toHost \in Seq(Messages)
    BY DEF Init
  <2>3. result \in [op : {"none", "shell"} \cup SyncOps, ok : BOOLEAN, clean : BOOLEAN]
    BY DEF Init
  <2> QED
    BY <1>2, <2>1, <2>2, <2>3, Zenon DEF Init, TypeOK, Streams
<1>4. Sound
  BY BoundsAssumption DEF Init, Sound
<1> QED
  BY <1>3, <1>4 DEF TypeInv

LEMMA OpenTyped ==
    ASSUME TypeInv, NEW o \in {"shell"} \cup SyncOps, NEW s, NEW what \in {"shell", "sync"},
           Open(o, what, s), s = IF o = "shell" THEN "output" ELSE "opened"
    PROVE  TypeInv'
<1> DEFINE m == Message("OPEN", nextLocal, 0, what, 0)
<1>1. /\ op' = o /\ stage' = s /\ output' = <<>> /\ nextLocal' = nextLocal + 1
      /\ streams' = streams \cup {nextLocal} /\ toGuest' = toGuest \o <<m>>
      /\ UNCHANGED <<request, remote, result, toHost, torn, up, guest, clean>>
      /\ nextLocal \in Ids
  BY DEF Open, Write, TypeInv, TypeOK, Ids
<1>2. m \in Messages
  <2>1. nextLocal \in 0..MaxOps /\ 0 \in 0..MaxOps /\ 0 \in 0..MaxChunks
    BY <1>1, BoundsAssumption DEF Ids
  <2> QED
    BY <2>1, Made
<1>3. m.cmd = "OPEN" /\ m.from = nextLocal /\ m.data = what
  BY DEF Message
<1> HIDE DEF m
<1>4. /\ toGuest' \in Seq(Messages) /\ Len(toGuest') = Len(toGuest) + 1
      /\ toGuest'[Len(toGuest) + 1] = m
      /\ \A i \in 1..Len(toGuest) : toGuest'[i] = toGuest[i]
  BY <1>1, <1>2, AddOne DEF TypeInv, TypeOK
<1>5. TypeOK'
  <2>1. nextLocal' \in 1..(MaxOps + 1) /\ streams' \subseteq Ids
    BY <1>1, BoundsAssumption DEF TypeInv, TypeOK, Ids
  <2>2. output' \in Seq(Ids \X (0..MaxChunks))
    BY <1>1
  <2>3. op' \in {"none", "shell"} \cup SyncOps /\ stage' \in {"idle", "output", "opened", "ack", "reply"}
    BY <1>1
  <2> QED
    BY <1>1, <1>4, <2>1, <2>2, <2>3, Zenon DEF TypeInv, TypeOK
<1>6. \A i \in 1..Len(toGuest') : toGuest'[i].cmd = "OPEN" =>
          toGuest'[i].from \in Ids /\ toGuest'[i].data \in {"shell", "sync"}
  BY <1>1, <1>3, <1>4 DEF TypeInv, TypeOK, Sound
<1>7. Sound'
  BY <1>1, <1>6, BoundsAssumption DEF TypeInv, TypeOK, Sound, Ids, SyncOps
<1> QED
  BY <1>5, <1>7 DEF TypeInv

(* The part of TypeInv about the messages in flight. *)
Carried ==
    /\ toGuest \in Seq(Messages) /\ toHost \in Seq(Messages)
    /\ \A i \in 1..Len(toGuest) : toGuest[i].cmd = "OPEN" =>
           toGuest[i].from \in Ids /\ toGuest[i].data \in {"shell", "sync"}
    /\ \A i \in 1..Len(toHost) : toHost[i].cmd = "WRTE" => toHost[i].from \in Ids

(* The message that is read, and those after it. *)
LEMMA Received ==
    ASSUME TypeInv, NEW cmd, Incoming(cmd), Receive
    PROVE  /\ Head(toHost) \in Messages /\ Head(toHost) = toHost[1] /\ Head(toHost).cmd = cmd
           /\ cmd = "WRTE" => Head(toHost).from \in Ids
           /\ Len(toHost) \in Nat \ {0}
           /\ toHost' \in Seq(Messages) /\ Len(toHost') = Len(toHost) - 1
           /\ \A i \in 1..Len(toHost') : toHost'[i] = toHost[i + 1]
           /\ \A i \in 1..Len(toHost') : toHost'[i].cmd = "WRTE" => toHost'[i].from \in Ids
  BY TakeOne DEF TypeInv, TypeOK, Sound, Incoming, Receive

(* The client's writes, none of which is an OPEN. *)
LEMMA Wrote ==
    ASSUME TypeInv, NEW m \in Messages, m.cmd # "OPEN", Write(<<m>>)
    PROVE  /\ toGuest' \in Seq(Messages) /\ Len(toGuest') = Len(toGuest) + 1
           /\ Len(toGuest) \in Nat
           /\ toGuest'[Len(toGuest) + 1] = m
           /\ \A i \in 1..Len(toGuest) : toGuest'[i] = toGuest[i]
           /\ \A i \in 1..Len(toGuest') : toGuest'[i].cmd = "OPEN" =>
                  toGuest'[i].from \in Ids /\ toGuest'[i].data \in {"shell", "sync"}
<1>1. toGuest \in Seq(Messages) /\ Len(toGuest) \in Nat
  BY DEF TypeInv, TypeOK
<1>2. toGuest' = toGuest \o <<m>>
  BY DEF Write
<1>3. /\ toGuest' \in Seq(Messages) /\ Len(toGuest') = Len(toGuest) + 1
      /\ toGuest'[Len(toGuest) + 1] = m
      /\ \A i \in 1..Len(toGuest) : toGuest'[i] = toGuest[i]
  BY <1>1, <1>2, AddOne
<1>4. \A i \in 1..Len(toGuest') : toGuest'[i].cmd = "OPEN" =>
          toGuest'[i].from \in Ids /\ toGuest'[i].data \in {"shell", "sync"}
  BY <1>1, <1>3 DEF TypeInv, Sound
<1> QED
  BY <1>1, <1>3, <1>4

LEMMA WroteThree ==
    ASSUME TypeInv, NEW m \in Messages, m.cmd # "OPEN", NEW k \in Messages, k.cmd # "OPEN",
           NEW o \in Messages, o.cmd # "OPEN", toGuest' = toGuest \o <<m, k, o>>
    PROVE  /\ toGuest' \in Seq(Messages) /\ Len(toGuest') = Len(toGuest) + 3
           /\ Len(toGuest) \in Nat
           /\ toGuest'[Len(toGuest) + 1] = m /\ toGuest'[Len(toGuest) + 2] = k
           /\ toGuest'[Len(toGuest) + 3] = o
           /\ \A i \in 1..Len(toGuest) : toGuest'[i] = toGuest[i]
           /\ \A i \in 1..Len(toGuest') : toGuest'[i].cmd = "OPEN" =>
                  toGuest'[i].from \in Ids /\ toGuest'[i].data \in {"shell", "sync"}
<1>1. toGuest \in Seq(Messages) /\ Len(toGuest) \in Nat
  BY DEF TypeInv, TypeOK
<1>2. /\ toGuest' \in Seq(Messages) /\ Len(toGuest') = Len(toGuest) + 3
      /\ toGuest'[Len(toGuest) + 1] = m /\ toGuest'[Len(toGuest) + 2] = k
      /\ toGuest'[Len(toGuest) + 3] = o
      /\ \A i \in 1..Len(toGuest) : toGuest'[i] = toGuest[i]
  BY <1>1, AddThree
<1>3. \A i \in 1..Len(toGuest') : toGuest'[i].cmd = "OPEN" =>
          toGuest'[i].from \in Ids /\ toGuest'[i].data \in {"shell", "sync"}
  BY <1>1, <1>2 DEF TypeInv, Sound
<1> QED
  BY <1>1, <1>2, <1>3

LEMMA KeptToGuest ==
    ASSUME TypeInv, UNCHANGED toGuest
    PROVE  /\ toGuest' \in Seq(Messages)
           /\ \A i \in 1..Len(toGuest') : toGuest'[i].cmd = "OPEN" =>
                  toGuest'[i].from \in Ids /\ toGuest'[i].data \in {"shell", "sync"}
  BY DEF TypeInv, TypeOK, Sound

(* An operation has an id. *)
LEMMA Busy ==
    ASSUME TypeInv, op # "none"
    PROVE  Local \in Ids /\ Local \in 0..MaxOps /\ remote \in 0..MaxOps
  BY BoundsAssumption DEF TypeInv, TypeOK, Sound, Local, Ids

(* An operation that returns has left all but the messages as they may be. *)
LEMMA ReturnTyped ==
    ASSUME TypeInv, NEW ok \in BOOLEAN, Return(ok), clean' \in BOOLEAN, op # "none",
           streams' \in {streams, streams \ {Local}},
           UNCHANGED <<output, nextLocal, up>>, Carried', torn' \in BOOLEAN,
           guest' \in [Ids -> Streams]
    PROVE  TypeInv'
<1>1. result' \in [op : {"none", "shell"} \cup SyncOps, ok : BOOLEAN, clean : BOOLEAN]
  BY DEF Return, TypeInv, TypeOK
<1>2. remote' \in 0..MaxOps
  BY BoundsAssumption DEF Return, NoId
<1>3. streams' \subseteq Ids
  BY DEF TypeInv, TypeOK
<1>4. TypeOK'
  BY <1>1, <1>2, <1>3, Zenon DEF TypeInv, TypeOK, Return, Carried, Streams
<1>5. Sound'
  BY DEF Sound, Return, Carried
<1> QED
  BY <1>4, <1>5 DEF TypeInv

(* One that goes on. *)
LEMMA GoesOnTyped ==
    ASSUME TypeInv, op # "none", op' = op,
           stage' = stage \/ (stage' \in {"opened", "ack", "reply"} /\ op \in SyncOps),
           request' \in Requests \cup {"none"}, remote' \in 0..MaxOps,
           output' \in Seq(Ids \X (0..MaxChunks)), Len(output') <= MaxChunks \/ op # "push",
           UNCHANGED <<nextLocal, streams, result, clean, torn, up, guest>>, Carried'
    PROVE  TypeInv'
<1>1. stage' \in {"idle", "output", "opened", "ack", "reply"}
  BY Zenon DEF TypeInv, TypeOK
<1>2. TypeOK'
  BY <1>1, Zenon DEF TypeInv, TypeOK, Carried
<1>3. Sound'
  BY DEF TypeInv, Sound, Carried, SyncOps
<1> QED
  BY <1>2, <1>3 DEF TypeInv

(* The guest's steps. *)
LEMMA GuestTyped ==
    ASSUME TypeInv, UNCHANGED <<clientVars, torn>>, up' \in BOOLEAN, Carried',
           guest' \in [Ids -> Streams]
    PROVE  TypeInv'
<1>1. TypeOK'
  BY Zenon DEF TypeInv, TypeOK, Carried, clientVars, Streams
<1>2. Sound'
  BY DEF TypeInv, Sound, Carried, clientVars
<1> QED
  BY <1>1, <1>2 DEF TypeInv

LEMMA CarriedNow == TypeInv => Carried
  BY DEF TypeInv, TypeOK, Sound, Carried

LEMMA ShellTyped == ASSUME TypeInv, ShellOkay \/ ShellData \/ ShellEnds PROVE TypeInv'
<1>1. op # "none" /\ op # "push"
  BY DEF TypeInv, Sound, ShellOkay, ShellData, ShellEnds
<1>2. CASE ShellOkay
  <2>1. Incoming("OKAY") /\ Receive
    BY <1>2 DEF ShellOkay
  <2>2. Head(toHost).from \in 0..MaxOps
    BY <2>1, Received DEF Messages
  <2>3. remote' \in 0..MaxOps
    BY <1>2, <2>2 DEF ShellOkay, TypeInv, TypeOK
  <2>4. Carried'
    BY <1>2, <2>1, Received, KeptToGuest DEF ShellOkay, Carried
  <2>5. /\ op' = op /\ stage' = stage /\ (Len(output') <= MaxChunks \/ op # "push")
        /\ UNCHANGED <<nextLocal, streams, result, clean, torn, up, guest>>
        /\ request' \in Requests \cup {"none"} /\ output' \in Seq(Ids \X (0..MaxChunks))
    BY <1>1, <1>2 DEF ShellOkay, Receive, TypeInv, TypeOK
  <2> QED
    BY <1>1, <2>3, <2>4, <2>5, GoesOnTyped
<1>3. CASE ShellData
  <2>1. Incoming("WRTE") /\ Receive
    BY <1>3 DEF ShellData
  <2>2. Head(toHost).from \in Ids /\ Head(toHost).n \in 0..MaxChunks
    BY <2>1, Received DEF Messages
  <2>3. output' \in Seq(Ids \X (0..MaxChunks))
    BY <1>3, <2>2 DEF ShellData, TypeInv, TypeOK
  <2>4. Ack(Local, remote) \in Messages /\ Ack(Local, remote).cmd # "OPEN"
    BY <1>1, Busy, MadeAcks
  <2>5. Carried'
    BY <1>3, <2>1, <2>4, Received, Wrote DEF ShellData, Acknowledge, Carried
  <2>6. /\ op' = op /\ stage' = stage /\ (Len(output') <= MaxChunks \/ op # "push")
        /\ UNCHANGED <<nextLocal, streams, result, clean, torn, up, guest>>
        /\ request' \in Requests \cup {"none"} /\ remote' \in 0..MaxOps
    BY <1>1, <1>3 DEF ShellData, Receive, TypeInv, TypeOK
  <2> QED
    BY <1>1, <2>3, <2>5, <2>6, GoesOnTyped
<1>4. CASE ShellEnds
  <2>1. Carried'
    BY <1>4, Received, KeptToGuest DEF ShellEnds, Carried
  <2> QED
    BY <1>1, <1>4, <2>1, ReturnTyped DEF ShellEnds, Receive, Remove, TypeInv, TypeOK, Streams
<1> QED
  BY <1>2, <1>3, <1>4

(* What drops a read, or a whole operation. *)
LEMMA DropTyped == ASSUME TypeInv, ShellTimesOut \/ OpenTimesOut \/ Cancel PROVE TypeInv'
<1>1. op # "none"
  BY DEF TypeInv, Sound, ShellTimesOut, OpenTimesOut, Cancel
<1>2. /\ Return(FALSE) /\ clean' = FALSE /\ streams' \in {streams, streams \ {Local}}
      /\ UNCHANGED <<output, nextLocal, up, guest>> /\ Drop
  BY DEF ShellTimesOut, OpenTimesOut, Cancel, Fails, Remove
<1>3. toHost' = toHost /\ torn' \in BOOLEAN
  BY <1>2 DEF Drop, TypeInv, TypeOK
<1>4. CASE UNCHANGED toGuest
  <2>1. Carried'
    BY <1>3, <1>4, CarriedNow, KeptToGuest DEF Carried
  <2> QED
    BY <1>1, <1>2, <1>3, <2>1, ReturnTyped DEF TypeInv, TypeOK, Streams
<1>5. CASE Write(<<Close(Local, remote)>>)
  <2>1. Close(Local, remote) \in Messages /\ Close(Local, remote).cmd # "OPEN"
    BY <1>1, Busy, MadeAcks
  <2>2. Carried'
    BY <1>3, <1>5, <2>1, CarriedNow, Wrote DEF Carried
  <2> QED
    BY <1>1, <1>2, <1>3, <2>2, ReturnTyped DEF TypeInv, TypeOK, Streams
<1> QED
  BY <1>4, <1>5 DEF ShellTimesOut, OpenTimesOut, Cancel

(* A transfer's next request. *)
LEMMA RequestTyped ==
    ASSUME TypeInv, op \in SyncOps, NEW id \in 0..MaxOps, NEW r \in Requests, Request(id, r),
           NEW cmd, Incoming(cmd), Receive, UNCHANGED <<up, guest>>,
           r = "DATA" => Len(output) < MaxChunks,
           stage = "opened" => r # "DATA"
    PROVE  TypeInv'
<1>1. op # "none" /\ MaxChunks \in Nat
  BY BoundsAssumption DEF SyncOps
<1>2. Local \in Ids /\ Local \in 0..MaxOps
  BY <1>1, Busy
<1>3. 0 \in 0..MaxChunks
  BY <1>1
<1>4. r \in Requests \cup Chunks \cup {"", "shell", "sync", "QUIT"}
  OBVIOUS
<1> DEFINE m == Message("WRTE", Local, id, r, 0)
<1>5. m \in Messages /\ m.cmd # "OPEN"
  <2>1. m \in Messages
    BY <1>1, <1>2, <1>4, <1>3, Made
  <2> QED
    BY <2>1 DEF Message
<1>6. Write(<<m>>)
  BY DEF Request
<1> HIDE DEF m
<1>7. Carried'
  BY <1>5, <1>6, Received, Wrote DEF Carried
<1>8. output' \in Seq(Ids \X (0..MaxChunks)) /\ (Len(output') <= MaxChunks \/ op # "push")
  <2>1. output \in Seq(Ids \X (0..MaxChunks)) /\ (Len(output) <= MaxChunks \/ op # "push")
        /\ Len(output) \in Nat
    BY DEF TypeInv, TypeOK, Sound
  <2>2. CASE r = "DATA"
    <3>1. <<Local, Len(output) + 1>> \in Ids \X (0..MaxChunks)
      BY <1>1, <1>2, <2>1, <2>2
    <3> QED
      BY <1>1, <2>1, <2>2, <3>1 DEF Request
  <2>3. CASE r # "DATA"
    BY <2>1, <2>3 DEF Request
  <2> QED
    BY <2>2, <2>3
<1>9. /\ op' = op /\ stage' = "ack" /\ request' = r /\ remote' = id
      /\ UNCHANGED <<nextLocal, streams, result, clean, torn, up, guest>>
  BY DEF Request, Receive
<1> QED
  BY <1>1, <1>7, <1>8, <1>9, GoesOnTyped

LEMMA FailsTyped ==
    ASSUME TypeInv, op # "none", Fails, Carried', torn' \in BOOLEAN, UNCHANGED <<up, guest>>
    PROVE  TypeInv'
<1>1. guest' \in [Ids -> Streams]
  BY DEF TypeInv, TypeOK, Streams
<1>2. Return(FALSE) /\ clean' = FALSE /\ UNCHANGED <<output, nextLocal, streams>>
  BY DEF Fails
<1> QED
  BY <1>1, <1>2, ReturnTyped

LEMMA AckedTyped == ASSUME TypeInv, SyncOpened \/ Acked PROVE TypeInv'
<1>1. op \in SyncOps /\ op # "none"
  BY DEF TypeInv, TypeOK, Sound, SyncOpened, Acked
<1>2. Incoming("OKAY") /\ Receive /\ UNCHANGED <<up, guest>>
  BY DEF SyncOpened, Acked
<1>3. Head(toHost).from \in 0..MaxOps /\ remote \in 0..MaxOps
  BY <1>2, Received DEF Messages, TypeInv, TypeOK
<1>4. CASE SyncOpened
  <2>1. PICK r \in {"SEND", "RECV"} : Request(Head(toHost).from, r)
    BY <1>4 DEF SyncOpened
  <2>2. r \in Requests /\ r # "DATA"
    BY DEF Requests
  <2> QED
    BY <1>1, <1>2, <1>3, <2>1, <2>2, RequestTyped
<1>5. ASSUME stage = "ack", NEW r \in NextRequests, Request(remote, r) PROVE TypeInv'
  <2>1. r \in Requests /\ (r = "DATA" => Len(output) < MaxChunks)
    BY <1>5 DEF Requests, NextRequests
  <2> QED
    BY <1>1, <1>2, <1>3, <1>5, <2>1, RequestTyped
<1>6. ASSUME stage' = "reply",
             UNCHANGED <<op, request, remote, output, nextLocal, streams, result, clean, toGuest>>
      PROVE  TypeInv'
  <2>1. Carried'
    BY <1>2, <1>6, Received, KeptToGuest DEF Carried
  <2>2. output' \in Seq(Ids \X (0..MaxChunks)) /\ (Len(output') <= MaxChunks \/ op # "push")
        /\ request' \in Requests \cup {"none"} /\ UNCHANGED torn
    BY <1>2, <1>6 DEF TypeInv, TypeOK, Sound, Receive
  <2> QED
    BY <1>1, <1>2, <1>3, <1>6, <2>1, <2>2, GoesOnTyped
<1>7. ASSUME Fails, UNCHANGED toGuest PROVE TypeInv'
  <2>1. Carried'
    BY <1>2, <1>7, Received, KeptToGuest DEF Carried
  <2>2. torn' \in BOOLEAN
    BY <1>2 DEF Receive, TypeInv, TypeOK
  <2> QED
    BY <1>1, <1>2, <1>7, <2>1, <2>2, FailsTyped
<1> QED
  BY <1>4, <1>5, <1>6, <1>7 DEF Acked

LEMMA ReplyTyped == ASSUME TypeInv, Reply PROVE TypeInv'
<1>1. op \in SyncOps /\ op # "none" /\ Local \in 0..MaxOps /\ remote \in 0..MaxOps
  BY Busy DEF Reply, SyncOps
<1>2. Incoming("WRTE") /\ Receive /\ UNCHANGED <<up, guest>> /\ torn' \in BOOLEAN
      /\ UNCHANGED torn /\ guest' \in [Ids -> Streams]
  BY DEF Reply, Receive, TypeInv, TypeOK, Streams
<1>3. /\ Ack(Local, remote) \in Messages /\ Close(Local, remote) \in Messages
      /\ Ack(Local, remote).cmd # "OPEN" /\ Close(Local, remote).cmd # "OPEN"
  BY <1>1, MadeAcks
<1>4. 0 \in 0..MaxChunks /\ "QUIT" \in Requests \cup Chunks \cup {"", "shell", "sync", "QUIT"}
  BY BoundsAssumption
<1> DEFINE quit == Message("WRTE", Local, remote, "QUIT", 0)
<1>5. quit \in Messages /\ quit.cmd # "OPEN"
  <2>1. quit \in Messages
    BY <1>1, <1>4, Made
  <2> QED
    BY <2>1 DEF Message
<1> HIDE DEF quit
<1>6. ASSUME NEW ok \in BOOLEAN, CloseSession(ok, ReplyAck), UNCHANGED output PROVE TypeInv'
  <2>1. toGuest' = toGuest \o <<Ack(Local, remote), quit, Close(Local, remote)>>
    BY <1>6, <1>3, <1>5 DEF CloseSession, ReplyAck, Write, quit
  <2>2. Carried'
    BY <1>2, <1>3, <1>5, <2>1, Received, WroteThree DEF Carried
  <2> QED
    BY <1>1, <1>2, <1>6, <2>2, ReturnTyped DEF CloseSession, Remove
<1>7. ASSUME output' = Append(output, <<Head(toHost).from, Head(toHost).n>>), op = "pull",
             Write(ReplyAck),
             UNCHANGED <<op, stage, request, remote, nextLocal, streams, result, clean>>
      PROVE  TypeInv'
  <2>1. Head(toHost).from \in Ids /\ Head(toHost).n \in 0..MaxChunks
    BY <1>2, Received DEF Messages
  <2>2. output' \in Seq(Ids \X (0..MaxChunks))
    BY <1>7, <2>1 DEF TypeInv, TypeOK
  <2>3. Carried'
    BY <1>2, <1>3, <1>7, Received, Wrote DEF ReplyAck, Carried
  <2>4. request' \in Requests \cup {"none"}
    BY <1>7 DEF TypeInv, TypeOK
  <2> QED
    BY <1>1, <1>2, <1>7, <2>2, <2>3, <2>4, GoesOnTyped
<1>8. ASSUME Fails, Write(ReplyAck) PROVE TypeInv'
  <2>1. Carried'
    BY <1>2, <1>3, <1>8, Received, Wrote DEF ReplyAck, Carried
  <2> QED
    BY <1>1, <1>2, <1>8, <2>1, FailsTyped
<1> QED
  <2>1. \A data : (data = "DONE") \in BOOLEAN /\ Accepted(data) \in BOOLEAN /\ (data = "text") \in BOOLEAN
    BY DEF Accepted
  <2>2. \/ \E ok \in BOOLEAN : CloseSession(ok, ReplyAck) /\ UNCHANGED output
        \/ /\ output' = Append(output, <<Head(toHost).from, Head(toHost).n>>) /\ op = "pull"
           /\ Write(ReplyAck)
           /\ UNCHANGED <<op, stage, request, remote, nextLocal, streams, result, clean>>
        \/ Fails /\ Write(ReplyAck)
    <3> DEFINE data == Head(toHost).data
    <3>1. \/ \E ok \in {Accepted(data), data = "text"} : CloseSession(ok, ReplyAck) /\ UNCHANGED output
          \/ /\ output' = Append(output, <<Head(toHost).from, Head(toHost).n>>) /\ op = "pull"
             /\ Write(ReplyAck)
             /\ UNCHANGED <<op, stage, request, remote, nextLocal, streams, result, clean>>
          \/ CloseSession(data = "DONE", ReplyAck) /\ UNCHANGED output
          \/ Fails /\ Write(ReplyAck)
      BY Zenon DEF Reply
    <3>2. /\ {Accepted(data), data = "text"} \subseteq BOOLEAN
          /\ (data = "DONE") \in BOOLEAN
      BY <2>1
    <3> HIDE DEF data
    <3> QED
      BY <3>1, <3>2
  <2>3. CASE \E ok \in BOOLEAN : CloseSession(ok, ReplyAck) /\ UNCHANGED output
    BY <1>6, <2>3
  <2> QED
    BY <1>7, <1>8, <2>2, <2>3

LEMMA ErrorTyped == ASSUME TypeInv, Unexpected \/ ReadFails PROVE TypeInv'
<1>1. op # "none" /\ Fails /\ UNCHANGED <<up, guest, toGuest>>
  BY DEF Unexpected, ReadFails, TypeInv, Sound, channelVars
<1>2. CASE Unexpected
  <2>1. PICK cmd \in {"OKAY", "WRTE", "CLSE"} : Incoming(cmd)
    BY <1>2 DEF Unexpected
  <2>2. Receive
    BY <1>2 DEF Unexpected
  <2>3. Carried'
    BY <1>1, <2>1, <2>2, Received, KeptToGuest DEF Carried
  <2> QED
    BY <1>1, <2>2, <2>3, FailsTyped DEF Receive, TypeInv, TypeOK
<1>3. CASE ReadFails
  <2>1. UNCHANGED <<toGuest, toHost, torn>>
    BY <1>3 DEF ReadFails, channelVars
  <2>2. Carried' /\ torn' \in BOOLEAN
    BY <2>1, CarriedNow DEF Carried, TypeInv, TypeOK
  <2> QED
    BY <1>1, <2>2, FailsTyped
<1> QED
  BY <1>2, <1>3

(* What adbd does to one of its streams. *)
LEMMA ServiceSet ==
    ASSUME guest \in [Ids -> Streams], NEW l \in Ids,
           NEW v \in {"none", "shell", "sync", "closed"}, Set(l, "service", v)
    PROVE  /\ guest' \in [Ids -> Streams]
           /\ guest'[l].service = v /\ guest'[l].replies = guest[l].replies
           /\ guest'[l].said = guest[l].said /\ guest'[l].fails = guest[l].fails
           /\ guest'[l] = [guest[l] EXCEPT !.service = v]
           /\ \A k \in Ids : k # l => guest'[k] = guest[k]
<1>1. guest' = [guest EXCEPT ![l] = [guest[l] EXCEPT !.service = v]]
  BY DEF Set
<1> QED
  BY <1>1 DEF Streams

LEMMA ReadySet ==
    ASSUME guest \in [Ids -> Streams], NEW l \in Ids, Set(l, "ready", TRUE)
    PROVE  /\ guest' \in [Ids -> Streams]
           /\ guest'[l].service = guest[l].service /\ guest'[l].replies = guest[l].replies
           /\ guest'[l].said = guest[l].said /\ guest'[l].fails = guest[l].fails
           /\ \A k \in Ids : k # l => guest'[k] = guest[k]
<1>1. guest' = [guest EXCEPT ![l] = [guest[l] EXCEPT !.ready = TRUE]]
  BY DEF Set
<1> QED
  BY <1>1 DEF Streams

(* The replies to a pull. *)
LEMMA PullReplies ==
    ASSUME NEW k \in 0..MaxChunks
    PROVE  LET r == [i \in 1..(k + 1) |-> IF i <= k THEN "DATA" ELSE "DONE"] IN
           /\ r \in Seq(Chunks) /\ Len(r) = k + 1 /\ r # <<>>
           /\ \A i \in 1..Len(r) : r[i] = IF i < Len(r) THEN "DATA" ELSE "DONE"
<1> DEFINE r == [i \in 1..(k + 1) |-> IF i <= k THEN "DATA" ELSE "DONE"]
<1>1. k + 1 \in Nat /\ "DATA" \in Chunks /\ "DONE" \in Chunks
  BY BoundsAssumption DEF Replies, Chunks
<1>2. r \in Seq(Chunks) /\ Len(r) = k + 1
  BY <1>1
<1>3. r # <<>>
  BY <1>1, <1>2
<1>4. \A i \in 1..Len(r) : r[i] = IF i < Len(r) THEN "DATA" ELSE "DONE"
  BY <1>1, <1>2
<1> QED
  BY <1>2, <1>3, <1>4

LEMMA OneReply ==
    /\ <<"FAIL">> \in Seq(Chunks) /\ <<"OKAY">> \in Seq(Chunks) /\ <<>> \in Seq(Chunks)
    /\ Len(<<"FAIL">>) = 1 /\ <<"FAIL">>[1] = "FAIL" /\ <<"FAIL">> # <<>>
    /\ Len(<<"OKAY">>) = 1 /\ <<"OKAY">>[1] = "OKAY" /\ <<"OKAY">> # <<>>
    /\ <<"FAIL">> # <<"OKAY">>
  BY DEF Replies, Chunks

(* Serving a request changes its own stream only, and its type not at all. *)
LEMMA Served ==
    ASSUME guest \in [Ids -> Streams], NEW l \in Ids, NEW data, Serve(l, data)
    PROVE  /\ guest' \in [Ids -> Streams]
           /\ \A k \in Ids : k # l => guest'[k] = guest[k]
           /\ data # "QUIT" => guest'[l].service = guest[l].service
           /\ data = "SEND" => /\ guest'[l].said = 0
                               /\ guest'[l].replies \in {<<>>, <<"FAIL">>}
           /\ data = "DATA" => /\ guest'[l].said = OneMore(guest[l].said)
                               /\ guest'[l].replies = guest[l].replies
                               /\ guest'[l].fails = guest[l].fails
           /\ data = "DONE" => /\ guest'[l].said = guest[l].said
                               /\ \/ guest'[l].replies = guest[l].replies
                                  \/ guest'[l].replies = <<"FAIL">>
                                  \/ guest'[l].replies = <<"OKAY">> /\ ~guest'[l].fails
           /\ data = "RECV" =>
                  /\ guest'[l].said = 0
                  /\ guest'[l].replies # <<>> /\ Len(guest'[l].replies) - 1 <= MaxChunks
                  /\ \A i \in 1..Len(guest'[l].replies) :
                         IF i < Len(guest'[l].replies) THEN guest'[l].replies[i] = "DATA"
                         ELSE guest'[l].replies[i] \in {"DONE", "FAIL"}
           /\ data = "QUIT" => guest'[l] = [guest[l] EXCEPT !.service = "closed"]
<1>1. /\ guest[l] \in Streams /\ guest[l].said \in 0..MaxChunks /\ guest[l].fails \in BOOLEAN
      /\ guest[l].replies \in Seq(Chunks) /\ 0 \in 0..MaxChunks
  BY BoundsAssumption DEF Streams
<1>2. CASE data = "SEND"
  <2>1. PICK f \in BOOLEAN :
            guest' = [guest EXCEPT ![l] = [guest[l] EXCEPT !.fails = f, !.said = 0,
                                               !.replies = IF f THEN <<"FAIL">> ELSE <<>>]]
    BY <1>2 DEF Serve
  <2>2. (IF f THEN <<"FAIL">> ELSE <<>>) \in Seq(Chunks)
    BY OneReply
  <2> QED
    BY <1>1, <1>2, <2>1, <2>2 DEF Streams
<1>3. CASE data = "DONE"
  <2>1. PICK f \in BOOLEAN :
            guest' = [guest EXCEPT ![l] = [guest[l] EXCEPT !.fails = @ \/ f,
                         !.replies = IF guest[l].fails THEN @
                                     ELSE IF f THEN <<"FAIL">> ELSE <<"OKAY">>]]
    BY <1>3 DEF Serve
  <2>2. (IF guest[l].fails THEN guest[l].replies ELSE IF f THEN <<"FAIL">> ELSE <<"OKAY">>)
            \in Seq(Chunks)
    BY <1>1, OneReply
  <2> QED
    BY <1>1, <1>3, <2>1, <2>2 DEF Streams
<1>4. CASE data = "RECV"
  <2>1. PICK r \in {<<"FAIL">>}
              \cup {[i \in 1..(k + 1) |-> IF i <= k THEN "DATA" ELSE "DONE"] : k \in 0..MaxChunks} :
            guest' = [guest EXCEPT ![l] = [guest[l] EXCEPT !.replies = r, !.said = 0]]
    BY <1>4 DEF Serve
  <2>2. /\ r \in Seq(Chunks) /\ r # <<>> /\ Len(r) - 1 <= MaxChunks
        /\ \A i \in 1..Len(r) : IF i < Len(r) THEN r[i] = "DATA" ELSE r[i] \in {"DONE", "FAIL"}
    <3>1. CASE r = <<"FAIL">>
      BY <3>1, OneReply, BoundsAssumption
    <3>2. CASE r # <<"FAIL">>
      <4>1. PICK k \in 0..MaxChunks : r = [i \in 1..(k + 1) |-> IF i <= k THEN "DATA" ELSE "DONE"]
        BY <3>2
      <4>2. /\ r \in Seq(Chunks) /\ Len(r) = k + 1 /\ r # <<>>
            /\ \A i \in 1..Len(r) : r[i] = IF i < Len(r) THEN "DATA" ELSE "DONE"
        BY <4>1, PullReplies
      <4> QED
        BY <4>2, BoundsAssumption
    <3> QED
      BY <3>1, <3>2
  <2> QED
    BY <1>1, <1>4, <2>1, <2>2 DEF Streams
<1>5. CASE data = "DATA"
  <2>1. guest' = [guest EXCEPT ![l] = [guest[l] EXCEPT !.said = OneMore(@)]]
    BY <1>5 DEF Serve
  <2>2. OneMore(guest[l].said) \in 0..MaxChunks
    BY <1>1, BoundsAssumption DEF OneMore
  <2> QED
    BY <1>1, <1>5, <2>1, <2>2 DEF Streams
<1>6. CASE data = "QUIT"
  <2>1. Set(l, "service", "closed")
    BY <1>6 DEF Serve
  <2> QED
    BY <1>6, <2>1, ServiceSet
<1>7. CASE data \notin {"SEND", "DONE", "RECV", "DATA", "QUIT"}
  BY <1>1, <1>7 DEF Serve
<1> QED
  BY <1>2, <1>3, <1>4, <1>5, <1>6, <1>7

(* What the guest takes, and what it answers. *)
LEMMA Taken ==
    ASSUME TypeInv, toGuest # <<>>, toGuest' = Tail(toGuest)
    PROVE  /\ Head(toGuest) \in Messages /\ Head(toGuest) = toGuest[1]
           /\ Head(toGuest).cmd = "OPEN" =>
                  Head(toGuest).from \in Ids /\ Head(toGuest).data \in {"shell", "sync"}
           /\ Len(toGuest) \in Nat \ {0} /\ Len(toGuest') = Len(toGuest) - 1
           /\ toGuest' \in Seq(Messages)
           /\ \A i \in 1..Len(toGuest') : toGuest'[i] = toGuest[i + 1]
           /\ \A i \in 1..Len(toGuest') : toGuest'[i].cmd = "OPEN" =>
                  toGuest'[i].from \in Ids /\ toGuest'[i].data \in {"shell", "sync"}
<1>1. toGuest \in Seq(Messages)
  BY DEF TypeInv, TypeOK
<1>2. /\ Len(toGuest) \in Nat \ {0} /\ Head(toGuest) = toGuest[1] /\ Head(toGuest) \in Messages
      /\ toGuest' \in Seq(Messages) /\ Len(toGuest') = Len(toGuest) - 1
      /\ \A i \in 1..Len(toGuest') : toGuest'[i] = toGuest[i + 1]
  BY <1>1, TakeOne
<1> QED
  BY <1>1, <1>2 DEF TypeInv, Sound

LEMMA Answered ==
    ASSUME TypeInv, NEW m \in Messages, m.cmd = "WRTE" => m.from \in Ids, Answer(<<m>>)
    PROVE  /\ toHost' \in Seq(Messages) /\ Len(toHost') = Len(toHost) + 1
           /\ Len(toHost) \in Nat /\ toHost'[Len(toHost) + 1] = m
           /\ \A i \in 1..Len(toHost) : toHost'[i] = toHost[i]
           /\ \A i \in 1..Len(toHost') : toHost'[i].cmd = "WRTE" => toHost'[i].from \in Ids
<1>1. toHost \in Seq(Messages) /\ Len(toHost) \in Nat
  BY DEF TypeInv, TypeOK
<1>2. /\ toHost' \in Seq(Messages) /\ Len(toHost') = Len(toHost) + 1
      /\ toHost'[Len(toHost) + 1] = m
      /\ \A i \in 1..Len(toHost) : toHost'[i] = toHost[i]
  BY <1>1, AddOne DEF Answer
<1> QED
  BY <1>1, <1>2 DEF TypeInv, Sound

LEMMA AnsweredTwo ==
    ASSUME TypeInv, NEW m \in Messages, m.cmd # "WRTE", NEW k \in Messages, k.cmd # "WRTE",
           toHost' = toHost \o <<m, k>>
    PROVE  /\ toHost' \in Seq(Messages)
           /\ \A i \in 1..Len(toHost') : toHost'[i].cmd = "WRTE" => toHost'[i].from \in Ids
<1>1. toHost \in Seq(Messages) /\ Len(toHost) \in Nat
  BY DEF TypeInv, TypeOK
<1>2. /\ toHost' \in Seq(Messages) /\ Len(toHost') = Len(toHost) + 2
      /\ toHost'[Len(toHost) + 1] = m /\ toHost'[Len(toHost) + 2] = k
      /\ \A i \in 1..Len(toHost) : toHost'[i] = toHost[i]
  BY <1>1, AddTwo
<1> QED
  BY <1>1, <1>2 DEF TypeInv, Sound

LEMMA StreamsNow == TypeInv => guest \in [Ids -> Streams]
  BY DEF TypeInv, TypeOK, Streams

LEMMA TakesTyped == ASSUME TypeInv, GuestTakes PROVE TypeInv'
<1>1. /\ UNCHANGED <<clientVars, torn, up>> /\ toGuest # <<>> /\ toGuest' = Tail(toGuest)
      /\ up' \in BOOLEAN /\ guest \in [Ids -> Streams]
  BY StreamsNow DEF GuestTakes, TypeInv, TypeOK
<1> DEFINE m == Head(toGuest)
<1>2. /\ m \in Messages /\ m.from \in 0..MaxOps /\ m.to \in 0..MaxOps
      /\ m.cmd = "OPEN" => m.from \in Ids /\ m.data \in {"shell", "sync"}
      /\ toGuest' \in Seq(Messages)
      /\ \A i \in 1..Len(toGuest') : toGuest'[i].cmd = "OPEN" =>
             toGuest'[i].from \in Ids /\ toGuest'[i].data \in {"shell", "sync"}
  BY <1>1, Taken DEF Messages
<1> SUFFICES Carried' /\ guest' \in [Ids -> Streams]
  BY <1>1, GuestTyped
<1>3. CASE GuestOpens
  <2>1. m.cmd = "OPEN" /\ m.from \in Ids /\ m.data \in {"shell", "sync"}
    BY <1>2, <1>3 DEF GuestOpens
  <2>2. CASE Answer(<<Ack(m.from, m.from)>>) /\ Set(m.from, "service", m.data)
    <3>1. Ack(m.from, m.from) \in Messages /\ Ack(m.from, m.from).cmd # "WRTE"
      BY <1>2, MadeAcks
    <3> QED
      BY <1>1, <1>2, <2>1, <2>2, <3>1, Answered, ServiceSet DEF Carried
  <2>3. CASE Answer(<<Close(0, m.from)>>) /\ UNCHANGED guest
    <3>1. Close(0, m.from) \in Messages /\ Close(0, m.from).cmd # "WRTE"
      BY <1>2, MadeAcks, BoundsAssumption
    <3> QED
      BY <1>1, <1>2, <2>3, <3>1, Answered DEF Carried
  <2> QED
    BY <1>3, <2>2, <2>3 DEF GuestOpens
<1>4. CASE GuestReads
  <2>1. ASSUME UNCHANGED toHost PROVE toHost' \in Seq(Messages)
            /\ \A i \in 1..Len(toHost') : toHost'[i].cmd = "WRTE" => toHost'[i].from \in Ids
    BY <2>1 DEF TypeInv, TypeOK, Sound
  <2>2. CASE UNCHANGED <<toHost, guest>>
    BY <1>1, <1>2, <2>1, <2>2 DEF Carried
  <2>3. CASE OpenAt(m.to) /\ m.cmd = "OKAY" /\ Set(m.to, "ready", TRUE) /\ UNCHANGED toHost
    BY <1>1, <1>2, <2>1, <2>3, ReadySet DEF Carried, OpenAt
  <2>4. CASE OpenAt(m.to) /\ m.cmd = "CLSE" /\ Set(m.to, "service", "closed") /\ UNCHANGED toHost
    BY <1>1, <1>2, <2>1, <2>4, ServiceSet DEF Carried, OpenAt
  <2>5. CASE /\ OpenAt(m.to) /\ Serve(m.to, m.data)
             /\ Answer(<<Ack(m.to, m.from)>>
                       \o IF m.data = "QUIT" THEN <<Close(m.to, m.from)>> ELSE <<>>)
    <3>1. guest' \in [Ids -> Streams]
      BY <1>1, <2>5, Served DEF OpenAt
    <3>2. /\ Ack(m.to, m.from) \in Messages /\ Ack(m.to, m.from).cmd # "WRTE"
          /\ Close(m.to, m.from) \in Messages /\ Close(m.to, m.from).cmd # "WRTE"
      BY <1>2, MadeAcks
    <3>3. CASE m.data = "QUIT"
      <4>1. toHost' = toHost \o <<Ack(m.to, m.from), Close(m.to, m.from)>>
        BY <2>5, <3>3 DEF Answer
      <4> QED
        BY <1>2, <3>1, <3>2, <4>1, AnsweredTwo DEF Carried
    <3>4. CASE m.data # "QUIT"
      <4>1. Answer(<<Ack(m.to, m.from)>>)
        BY <2>5, <3>4 DEF Answer
      <4> QED
        BY <1>2, <3>1, <3>2, <4>1, Answered DEF Carried
    <3> QED
      BY <3>3, <3>4
  <2> QED
    BY <1>4, <2>2, <2>3, <2>4, <2>5 DEF GuestReads
<1> QED
  BY <1>3, <1>4 DEF GuestTakes

(* adbd writes on its own. *)
LEMMA Printed ==
    ASSUME TypeInv, NEW l \in Ids, GuestPrints(l)
    PROVE  /\ guest' \in [Ids -> Streams] /\ guest[l].said \in 0..(MaxChunks - 1)
           /\ guest'[l].service = "shell" /\ guest[l].service = "shell"
           /\ guest'[l].replies = guest[l].replies
           /\ guest'[l].said = guest[l].said + 1
           /\ \A k \in Ids : k # l => guest'[k] = guest[k]
           /\ Message("WRTE", l, l, "text", guest[l].said + 1) \in Messages
           /\ Answer(<<Message("WRTE", l, l, "text", guest[l].said + 1)>>)
           /\ UNCHANGED <<clientVars, toGuest, torn, up>>
<1>1. guest[l] \in Streams /\ guest[l].said \in 0..(MaxChunks - 1) /\ guest[l].service = "shell"
  BY StreamsNow, BoundsAssumption DEF GuestPrints, Streams
<1>2. guest' = [guest EXCEPT ![l] = [guest[l] EXCEPT !.said = @ + 1, !.ready = FALSE]]
  BY DEF GuestPrints
<1>3. guest[l].said + 1 \in 0..MaxChunks
  BY <1>1, BoundsAssumption
<1>4. l \in 0..MaxOps /\ "text" \in Requests \cup Chunks \cup {"", "shell", "sync", "QUIT"}
  BY BoundsAssumption DEF Ids, Chunks
<1>5. Message("WRTE", l, l, "text", guest[l].said + 1) \in Messages
  BY <1>3, <1>4, Made
<1>6. guest' \in [Ids -> Streams]
  BY <1>1, <1>2, <1>3, StreamsNow DEF Streams
<1>7. /\ guest'[l].service = "shell" /\ guest'[l].replies = guest[l].replies
      /\ guest'[l].said = guest[l].said + 1
      /\ \A k \in Ids : k # l => guest'[k] = guest[k]
  BY <1>1, <1>2, StreamsNow DEF Streams
<1> QED
  BY <1>1, <1>5, <1>6, <1>7 DEF GuestPrints

LEMMA Replied ==
    ASSUME TypeInv, NEW l \in Ids, GuestReplies(l), NEW data, data = Head(guest[l].replies),
           NEW n, n = IF data = "DATA" THEN OneMore(guest[l].said) ELSE 0
    PROVE  /\ guest' \in [Ids -> Streams] /\ guest[l].service = "sync"
           /\ guest[l].replies # <<>> /\ data \in Chunks /\ n \in 0..MaxChunks
           /\ guest'[l].service = "sync" /\ guest'[l].replies = Tail(guest[l].replies)
           /\ guest'[l].said = IF data = "DATA" THEN n ELSE guest[l].said
           /\ guest'[l].fails = guest[l].fails
           /\ \A k \in Ids : k # l => guest'[k] = guest[k]
           /\ Message("WRTE", l, l, data, n) \in Messages
           /\ Answer(<<Message("WRTE", l, l, data, n)>>)
           /\ UNCHANGED <<clientVars, toGuest, torn, up>>
<1>1. /\ guest[l] \in Streams /\ guest[l].said \in 0..MaxChunks /\ guest[l].service = "sync"
      /\ guest[l].replies \in Seq(Chunks) /\ guest[l].replies # <<>>
  BY StreamsNow DEF GuestReplies, Streams
<1>2. /\ guest' = [guest EXCEPT ![l] = [guest[l] EXCEPT !.replies = Tail(@), !.ready = FALSE,
                                             !.said = IF data = "DATA" THEN n ELSE @]]
      /\ Answer(<<Message("WRTE", l, l, data, n)>>)
      /\ UNCHANGED <<clientVars, toGuest, torn, up>>
  BY DEF GuestReplies
<1>3. n \in 0..MaxChunks
  BY <1>1, BoundsAssumption DEF OneMore
<1>4. data \in Chunks /\ Tail(guest[l].replies) \in Seq(Chunks)
  BY <1>1, TakeOne
<1>5. Message("WRTE", l, l, data, n) \in Messages
  <2>1. l \in 0..MaxOps
    BY BoundsAssumption DEF Ids
  <2>2. data \in Requests \cup Chunks \cup {"", "shell", "sync", "QUIT"}
    BY <1>4
  <2> QED
    BY <1>3, <2>1, <2>2, Made
<1>6. guest' \in [Ids -> Streams]
  BY <1>1, <1>2, <1>3, <1>4, StreamsNow DEF Streams
<1>7. /\ guest'[l].service = "sync" /\ guest'[l].replies = Tail(guest[l].replies)
      /\ guest'[l].said = IF data = "DATA" THEN n ELSE guest[l].said
      /\ guest'[l].fails = guest[l].fails
      /\ \A k \in Ids : k # l => guest'[k] = guest[k]
  BY <1>1, <1>2, StreamsNow DEF Streams
<1> QED
  BY <1>1, <1>2, <1>3, <1>4, <1>5, <1>6, <1>7

LEMMA Packed ==
    ASSUME TypeInv, NEW l \in Ids, GuestPacks(l)
    PROVE  /\ guest' \in [Ids -> Streams] /\ guest[l].replies # <<>>
           /\ \A k \in Ids : k # l => guest'[k] = guest[k]
           /\ clean' = FALSE /\ Carried'
           /\ UNCHANGED <<op, stage, request, remote, output, nextLocal, streams, result,
                          toGuest, torn, up>>
<1> DEFINE replies == guest[l].replies
           n == OneMore(guest[l].said)
<1>1. /\ guest \in [Ids -> Streams] /\ guest[l] \in Streams
      /\ replies \in Seq(Chunks) /\ replies # <<>>
      /\ n \in 0..MaxChunks /\ 0 \in 0..MaxChunks
  <2>1. replies # <<>>
    BY Zenon DEF GuestPacks
  <2>2. guest \in [Ids -> Streams] /\ guest[l] \in Streams
    BY StreamsNow
  <2>3. replies \in Seq(Chunks) /\ guest[l].said \in 0..MaxChunks
    BY <2>2 DEF Streams
  <2>4. n \in 0..MaxChunks /\ 0 \in 0..MaxChunks
    BY <2>3, BoundsAssumption DEF OneMore
  <2> QED
    BY <2>1, <2>2, <2>3, <2>4
<1>2. l \in 0..MaxOps /\ "DATA" \in Requests \cup Chunks \cup {"", "shell", "sync", "QUIT"}
  BY BoundsAssumption DEF Ids, Requests
<1>3. ASSUME NEW k \in 0..MaxChunks, Answer(<<Message("WRTE", l, l, "DATA", k)>>) PROVE Carried'
  <2>1. Message("WRTE", l, l, "DATA", k) \in Messages
    BY <1>2, <1>3, Made
  <2>2. Message("WRTE", l, l, "DATA", k).from \in Ids
    BY DEF Message
  <2>3. UNCHANGED toGuest
    BY DEF GuestPacks
  <2> QED
    BY <1>3, <2>1, <2>2, <2>3, Answered, KeptToGuest DEF Carried
<1>4. ASSUME NEW k \in 2..Len(replies)
      PROVE  SubSeq(replies, k + 1, Len(replies)) \in Seq(Chunks)
  BY <1>1
<1>5. ASSUME NEW rest \in Chunks PROVE <<rest>> \o Tail(replies) \in Seq(Chunks)
  BY <1>1
<1> HIDE DEF replies, n
<1>6. CASE \E k \in 2..Len(replies) :
              /\ Answer(<<Message("WRTE", l, l, "DATA", n)>>)
              /\ guest' = [guest EXCEPT ![l] = [guest[l] EXCEPT
                     !.replies = SubSeq(replies, k + 1, Len(replies)),
                     !.ready = FALSE, !.said = n]]
  <2>1. Carried'
    BY <1>1, <1>3, <1>6
  <2>2. PICK k \in 2..Len(replies) : guest' = [guest EXCEPT ![l] = [guest[l] EXCEPT
            !.replies = SubSeq(replies, k + 1, Len(replies)), !.ready = FALSE, !.said = n]]
    BY <1>6
  <2>3. [guest[l] EXCEPT !.replies = SubSeq(replies, k + 1, Len(replies)), !.ready = FALSE,
                         !.said = n] \in Streams
    <3>1. SubSeq(replies, k + 1, Len(replies)) \in Seq(Chunks)
      BY <1>4
    <3> QED
      BY <1>1, <3>1 DEF Streams
  <2>4. guest' \in [Ids -> Streams] /\ \A j \in Ids : j # l => guest'[j] = guest[j]
    BY <1>1, <2>2, <2>3
  <2> QED
    BY <1>1, <2>1, <2>4 DEF GuestPacks, replies
<1>7. CASE \E rest \in Chunks :
              /\ Answer(<<Message("WRTE", l, l, "DATA", 0)>>)
              /\ guest' = [guest EXCEPT ![l] = [guest[l] EXCEPT
                     !.replies = <<rest>> \o Tail(replies), !.ready = FALSE]]
  <2>1. Carried'
    BY <1>1, <1>3, <1>7
  <2>2. PICK rest \in Chunks : guest' = [guest EXCEPT ![l] = [guest[l] EXCEPT
            !.replies = <<rest>> \o Tail(replies), !.ready = FALSE]]
    BY <1>7
  <2>3. [guest[l] EXCEPT !.replies = <<rest>> \o Tail(replies), !.ready = FALSE] \in Streams
    <3>1. <<rest>> \o Tail(replies) \in Seq(Chunks)
      BY <1>5
    <3> QED
      BY <1>1, <3>1 DEF Streams
  <2>4. guest' \in [Ids -> Streams] /\ \A j \in Ids : j # l => guest'[j] = guest[j]
    BY <1>1, <2>2, <2>3
  <2> QED
    BY <1>1, <2>1, <2>4 DEF GuestPacks, replies
<1>8. \/ \E k \in 2..Len(replies) :
            /\ Answer(<<Message("WRTE", l, l, "DATA", n)>>)
            /\ guest' = [guest EXCEPT ![l] = [guest[l] EXCEPT
                   !.replies = SubSeq(replies, k + 1, Len(replies)), !.ready = FALSE, !.said = n]]
      \/ \E rest \in Chunks :
            /\ Answer(<<Message("WRTE", l, l, "DATA", 0)>>)
            /\ guest' = [guest EXCEPT ![l] = [guest[l] EXCEPT
                   !.replies = <<rest>> \o Tail(replies), !.ready = FALSE]]
  BY DEF GuestPacks, replies, n
<1> QED
  BY <1>6, <1>7, <1>8

LEMMA Exited ==
    ASSUME TypeInv, NEW l \in Ids, GuestExits(l)
    PROVE  /\ guest' \in [Ids -> Streams] /\ guest[l].service = "shell"
           /\ guest'[l].service = "closed" /\ guest'[l].replies = guest[l].replies
           /\ guest'[l].said = guest[l].said
           /\ \A k \in Ids : k # l => guest'[k] = guest[k]
           /\ Close(l, l) \in Messages /\ Close(l, l).cmd = "CLSE"
           /\ Answer(<<Close(l, l)>>) /\ UNCHANGED <<clientVars, toGuest, torn, up>>
<1>1. l \in 0..MaxOps
  BY BoundsAssumption DEF Ids
<1>2. Close(l, l) \in Messages /\ Close(l, l).cmd = "CLSE"
  BY <1>1, MadeAcks
<1> QED
  BY <1>2, StreamsNow, ServiceSet DEF GuestExits

LEMMA WritesTyped ==
    ASSUME TypeInv, NEW l \in Ids,
           GuestPrints(l) \/ GuestExits(l) \/ GuestReplies(l) \/ GuestPacks(l)
    PROVE  TypeInv'
<1>1. ASSUME NEW m \in Messages, m.cmd = "WRTE" => m.from \in Ids, Answer(<<m>>),
             UNCHANGED <<clientVars, toGuest, torn, up>>, guest' \in [Ids -> Streams]
      PROVE  TypeInv'
  <2>1. Carried' /\ up' \in BOOLEAN
    BY <1>1, Answered, KeptToGuest DEF Carried, TypeInv, TypeOK
  <2> QED
    BY <1>1, <2>1, GuestTyped
<1>2. CASE GuestPrints(l)
  BY <1>1, <1>2, Printed DEF Message
<1>3. CASE GuestExits(l)
  BY <1>1, <1>3, Exited
<1>4. CASE GuestReplies(l)
  <2> DEFINE data == Head(guest[l].replies)
             n == IF data = "DATA" THEN OneMore(guest[l].said) ELSE 0
  <2>1. Message("WRTE", l, l, data, n) \in Messages /\ Answer(<<Message("WRTE", l, l, data, n)>>)
        /\ UNCHANGED <<clientVars, toGuest, torn, up>> /\ guest' \in [Ids -> Streams]
    BY <1>4, Replied
  <2> QED
    BY <1>1, <2>1 DEF Message
<1>5. CASE GuestPacks(l)
  <2>1. /\ guest' \in [Ids -> Streams] /\ clean' = FALSE /\ Carried'
        /\ UNCHANGED <<op, stage, request, remote, output, nextLocal, streams, result, torn, up>>
    BY <1>5, Packed
  <2>2. TypeOK'
    BY <2>1, Zenon DEF TypeInv, TypeOK, Carried, Streams
  <2>3. Sound'
    BY <2>1 DEF TypeInv, Sound, Carried
  <2> QED
    BY <2>2, <2>3 DEF TypeInv
<1> QED
  BY <1>2, <1>3, <1>4, <1>5

LEMMA ConnectTyped == ASSUME TypeInv, Connect PROVE TypeInv'
<1>1. guest' \in [Ids -> Streams]
  <2>1. NoStream \in Streams
    BY BoundsAssumption DEF NoStream, Streams
  <2> QED
    BY <2>1 DEF Connect
<1>2. result' \in [op : {"none", "shell"} \cup SyncOps, ok : BOOLEAN, clean : BOOLEAN]
  BY DEF Connect
<1>3. nextLocal' \in 1..(MaxOps + 1) /\ streams' \subseteq Ids
  BY BoundsAssumption DEF Connect
<1>4. /\ output' \in Seq(Ids \X (0..MaxChunks))
      /\ toGuest' \in Seq(Messages) /\ toHost' \in Seq(Messages)
  BY DEF Connect
<1>5. TypeOK'
  BY <1>1, <1>2, <1>3, <1>4, Zenon DEF TypeInv, TypeOK, Connect, Streams
<1>6. Sound'
  BY BoundsAssumption DEF TypeInv, Sound, Connect
<1> QED
  BY <1>5, <1>6 DEF TypeInv

LEMMA NextTyped == TypeInv /\ [Next]_vars => TypeInv'
<1> SUFFICES ASSUME TypeInv, [Next]_vars PROVE TypeInv'
  OBVIOUS
<1>1. CASE OpenShell
  BY <1>1, OpenTyped DEF OpenShell
<1>2. ASSUME NEW o \in SyncOps, OpenSync(o) PROVE TypeInv'
  BY <1>2, OpenTyped DEF OpenSync, SyncOps
<1>3. CASE Ends
  BY <1>3, ShellTyped, AckedTyped, ReplyTyped, ErrorTyped DEF Ends, Shell, Sync
<1>4. CASE ShellTimesOut \/ OpenTimesOut \/ Cancel
  BY <1>4, DropTyped
<1>5. CASE Connect
  BY <1>5, ConnectTyped
<1>6. CASE Guest
  BY <1>6, TakesTyped, WritesTyped DEF Guest
<1>7. ASSUME NEW l \in Ids, GuestPrints(l) \/ GuestExits(l) PROVE TypeInv'
  BY <1>7, WritesTyped
<1>8. CASE GuestDies
  <2>1. Carried'
    BY <1>8, CarriedNow DEF GuestDies, channelVars, Carried
  <2> QED
    BY <1>8, <2>1, StreamsNow, GuestTyped DEF GuestDies, channelVars
<1>9. CASE UNCHANGED vars
  <2>1. Carried' /\ up' \in BOOLEAN
    BY <1>9, CarriedNow DEF vars, channelVars, Carried, TypeInv, TypeOK
  <2> QED
    BY <1>9, <2>1, StreamsNow, GuestTyped DEF vars, channelVars
<1> QED
  BY <1>1, <1>2, <1>3, <1>4, <1>5, <1>6, <1>7, <1>8, <1>9 DEF Next

------------------------------------------------------------------------------
(* A clean connection.                                                     *)

(* A message other than an acknowledgment is not settled. *)
LEMMA PendingIsNot ==
    ASSUME TypeInv, NEW m, Pending(m), m.cmd # "OKAY"
    PROVE  ~Settled
<1>1. Len(toGuest) \in 1..Len(toGuest)
  BY TakeOne DEF TypeInv, TypeOK, Pending
<1> QED
  BY <1>1 DEF Pending, Settled

LEMMA Asked == Asking.cmd = "WRTE" /\ Opening.cmd = "OPEN"
  BY DEF Asking, Opening, Message

(* An acknowledgment more in flight. *)
LEMMA StillSettled ==
    ASSUME TypeInv, NEW m \in Messages, m.cmd = "OKAY", Write(<<m>>), Settled
    PROVE  Settled'
<1>1. m.cmd # "OPEN"
  OBVIOUS
<1> QED
  BY <1>1, Wrote DEF Settled

LEMMA NowPending ==
    ASSUME TypeInv, NEW m \in Messages, Write(<<m>>), Settled
    PROVE  /\ toGuest' # <<>> /\ toGuest'[Len(toGuest')] = m
           /\ \A i \in 1..(Len(toGuest') - 1) : toGuest'[i].cmd = "OKAY"
<1>1. /\ toGuest' \in Seq(Messages) /\ Len(toGuest') = Len(toGuest) + 1
      /\ Len(toGuest) \in Nat /\ toGuest'[Len(toGuest) + 1] = m
      /\ \A i \in 1..Len(toGuest) : toGuest'[i] = toGuest[i]
  BY AddOne DEF TypeInv, TypeOK, Write
<1> QED
  BY <1>1 DEF Settled

LEMMA OpenClean ==
    ASSUME TypeInv, CleanInv, NEW o \in {"shell"} \cup SyncOps, NEW s,
           NEW what, what = IF o = "shell" THEN "shell" ELSE "sync",
           Open(o, what, s), s = IF o = "shell" THEN "output" ELSE "opened"
    PROVE  CleanInv'
<1> SUFFICES ASSUME clean PROVE Alone' /\ Flow'
  BY DEF CleanInv, Open
<1> DEFINE m == Message("OPEN", nextLocal, 0, what, 0)
<1>1. /\ op = "none" /\ op' = o /\ o # "none" /\ stage' = s /\ output' = <<>>
      /\ nextLocal' = nextLocal + 1 /\ Write(<<m>>)
      /\ UNCHANGED <<request, remote, result, toHost, guest>>
      /\ nextLocal \in Ids /\ Local' = nextLocal /\ Local = nextLocal - 1
  BY BoundsAssumption DEF Open, TypeInv, TypeOK, Ids, SyncOps, Local
<1>2. Settled /\ toHost = <<>> /\ guest[Local'] = NoStream
      /\ (\A l \in Ids : ~OpenAt(l)) /\ (\A l \in Ids : l > Local => guest[l] = NoStream)
  BY <1>1 DEF CleanInv, Alone, Ids
<1>3. m \in Messages
  <2>1. nextLocal \in 0..MaxOps /\ 0 \in 0..MaxOps /\ 0 \in 0..MaxChunks
    BY <1>1, BoundsAssumption DEF Ids
  <2>2. what \in Requests \cup Chunks \cup {"", "shell", "sync", "QUIT"}
    BY <1>1
  <2> QED
    BY <2>1, <2>2, Made
<1>4. Opening' = m
  BY <1>1 DEF Opening
<1> HIDE DEF m
<1>5. Pending(Opening)'
  BY <1>1, <1>2, <1>3, <1>4, NowPending DEF Pending
<1>6. Alone'
  BY <1>1, <1>2, BoundsAssumption DEF Alone, OpenAt, Ids
<1>7. remote = NoId
  BY <1>1 DEF TypeInv, Sound
<1>8. NotOpen'
  BY <1>1, <1>2, <1>5, <1>7 DEF NotOpen
<1>9. Flow'
  BY <1>1, <1>8 DEF Flow, SyncOps
<1> QED
  BY <1>6, <1>9

LEMMA Fields ==
    ASSUME NEW from, NEW to, NEW n, NEW data
    PROVE  /\ Ack(from, to).cmd = "OKAY" /\ Ack(from, to).from = from /\ Ack(from, to).to = to
           /\ Close(from, to).cmd = "CLSE" /\ Close(from, to).to = to
           /\ LET w == Message("WRTE", from, to, data, n) IN
              w.cmd = "WRTE" /\ w.from = from /\ w.to = to /\ w.data = data /\ w.n = n
  BY DEF Ack, Close, Message

(* The next message of a stream that is not open, and of a command's. *)
LEMMA NotOpenHead ==
    ASSUME TypeInv, NotOpen, toHost # <<>>
    PROVE  toHost[1].cmd = "CLSE" /\ Len(toHost) = 1 /\ Settled
<1>1. Settled /\ toHost = <<Close(0, Local)>>
  BY DEF NotOpen
<1>2. Len(toHost) = 1 /\ toHost[1] = Close(0, Local)
  BY <1>1
<1> QED
  BY <1>1, <1>2, Fields

LEMMA ShellHead ==
    ASSUME TypeInv, ShellStream, Local \in Ids
    PROVE  /\ output \in Seq(Ids \X (0..MaxChunks)) /\ Len(output) \in Nat
           /\ guest[Local].said \in Nat /\ Unread \in Nat /\ First \in {0, 1}
           /\ guest[Local].said = Len(output) + Unread
           /\ toHost # <<>> =>
                  /\ First = 1 => toHost[1] = Ack(Local, Local)
                  /\ First = 0 /\ Unread >= 1 => toHost[1] = Text(Len(output) + 1)
                  /\ First = 0 /\ Unread = 0 =>
                         /\ toHost[1] = Close(Local, Local) /\ Len(toHost) = 1
                         /\ guest[Local].service = "closed"
<1>1. /\ output \in Seq(Ids \X (0..MaxChunks)) /\ Len(output) \in Nat
      /\ guest[Local].said \in Nat
  BY StreamsNow DEF TypeInv, TypeOK, Streams
<1>2. Unread \in Nat /\ First \in {0, 1} /\ guest[Local].said = Len(output) + Unread
  <2>1. Unread >= 0
    BY DEF ShellStream
  <2> QED
    BY <1>1, <2>1 DEF Unread, First
<1>3. ASSUME toHost # <<>>
      PROVE  /\ First = 1 => toHost[1] = Ack(Local, Local)
             /\ First = 0 /\ Unread >= 1 => toHost[1] = Text(Len(output) + 1)
             /\ First = 0 /\ Unread = 0 =>
                    /\ toHost[1] = Close(Local, Local) /\ Len(toHost) = 1
                    /\ guest[Local].service = "closed"
  <2>1. Len(toHost) \in Nat \ {0} /\ 1 \in 1..Len(toHost)
    BY <1>3, TakeOne DEF TypeInv, TypeOK
  <2>2. toHost[1] = IF 1 <= First THEN Ack(Local, Local)
                    ELSE IF 1 <= First + Unread THEN Text(Len(output) + 1 - First)
                    ELSE Close(Local, Local)
    BY <2>1 DEF ShellStream, ShellMessage
  <2>3. First = 0 => Len(output) + 1 - First = Len(output) + 1
    BY <1>1
  <2>4. First = 0 /\ Unread = 0 => Len(toHost) = 1 /\ guest[Local].service = "closed"
    BY <1>2, <2>1 DEF ShellStream, End
  <2> QED
    BY <1>2, <2>2, <2>3, <2>4
<1> QED
  BY <1>1, <1>2, <1>3

(* Reading it leaves a command's stream those after it. *)
LEMMA ShellRest ==
    ASSUME TypeInv, ShellStream, Local \in Ids, UNCHANGED <<guest, nextLocal>>,
           toHost # <<>>, toHost' = Tail(toHost),
           First' = 0, Unread' = First + Unread - 1, Unread' \in Nat,
           Len(output') \in Nat, Len(output') = Len(output) - First + 1
    PROVE  /\ Len(toHost') = First' + Unread' + End'
           /\ \A i \in 1..Len(toHost') : toHost'[i] = ShellMessage(i)'
<1>1. /\ Len(toHost) \in Nat \ {0} /\ Len(toHost') = Len(toHost) - 1 /\ Len(toHost') \in Nat
      /\ \A i \in 1..Len(toHost') : toHost'[i] = toHost[i + 1]
  BY TakeOne DEF TypeInv, TypeOK
<1>2. /\ Len(output) \in Nat /\ Unread \in Nat /\ First \in {0, 1} /\ Local' = Local
      /\ End \in {0, 1} /\ End' = End
  BY ShellHead DEF Local, End
<1>3. Len(toHost') = First' + Unread' + End'
  <2>1. Len(toHost) = First + Unread + End
    BY DEF ShellStream
  <2> QED
    BY <1>1, <1>2, <2>1
<1>4. ASSUME NEW i \in 1..Len(toHost') PROVE toHost'[i] = ShellMessage(i)'
  <2>1. i \in Nat /\ i >= 1 /\ i + 1 \in 1..Len(toHost) /\ toHost'[i] = toHost[i + 1]
    BY <1>1, <1>4
  <2>2. toHost[i + 1] = ShellMessage(i + 1)
    BY <2>1 DEF ShellStream
  <2>3. /\ ~(i <= First') /\ ~(i + 1 <= First)
        /\ i <= First' + Unread' <=> i + 1 <= First + Unread
        /\ Len(output') + i - First' = Len(output) + (i + 1) - First
    BY <1>2, <2>1
  <2> DEFINE n == Len(output) + (i + 1) - First
  <2>4. ShellMessage(i + 1) = IF i + 1 <= First + Unread THEN Text(n) ELSE Close(Local, Local)
    BY <2>3 DEF ShellMessage
  <2>5. ShellMessage(i)' = IF i + 1 <= First + Unread
                           THEN Message("WRTE", Local', Local', "text", n) ELSE Close(Local', Local')
    BY <2>3 DEF ShellMessage, Text
  <2> QED
    BY <1>2, <2>1, <2>2, <2>4, <2>5 DEF Text
<1> QED
  BY <1>3, <1>4

LEMMA ShellOkayClean == ASSUME TypeInv, CleanInv, ShellOkay PROVE CleanInv'
<1> SUFFICES ASSUME clean PROVE Alone' /\ Flow'
  BY DEF CleanInv, ShellOkay
<1>1. /\ op = "shell" /\ stage = "output" /\ op' = op /\ stage' = stage /\ Local' = Local
      /\ Local \in Ids /\ Local # NoId
      /\ remote' = (IF remote = NoId THEN toHost[1].from ELSE remote)
      /\ UNCHANGED <<output, toGuest, guest>>
  BY Busy, Received DEF ShellOkay, TypeInv, Sound, Local, Ids, NoId
<1>2. /\ toHost[1].cmd = "OKAY" /\ Len(toHost) \in Nat \ {0} /\ toHost' \in Seq(Messages)
      /\ Len(toHost') = Len(toHost) - 1
      /\ \A i \in 1..Len(toHost') : toHost'[i] = toHost[i + 1]
  BY Received DEF ShellOkay
<1>3. ~NotOpen
  BY <1>2, NotOpenHead
<1>4. ShellStream
  BY <1>1, <1>3 DEF CleanInv, Flow
<1>5. /\ output \in Seq(Ids \X (0..MaxChunks)) /\ Len(output) \in Nat
      /\ guest[Local].said \in Nat /\ Unread \in Nat /\ First \in {0, 1}
      /\ guest[Local].said = Len(output) + Unread
  BY <1>1, <1>4, ShellHead
<1>6. First = 1 /\ toHost[1] = Ack(Local, Local)
  <2>1. Text(Len(output) + 1).cmd = "WRTE" /\ Close(Local, Local).cmd = "CLSE"
    BY Fields DEF Text
  <2> QED
    BY <1>1, <1>2, <1>4, <1>5, <2>1, ShellHead
<1>7. remote = NoId /\ toHost[1] = Ack(Local, Local) /\ remote' = Local /\ First' = 0
  <2>1. remote = NoId
    BY <1>6 DEF First
  <2> QED
    BY <1>1, <1>6, <2>1, Fields DEF First
<1>8. Settled' /\ InOrder' /\ Unread' = Unread
  BY <1>1, <1>4, <1>5 DEF ShellStream, Settled, InOrder, Unread
<1>9. /\ Len(toHost') = First' + Unread' + End'
      /\ \A i \in 1..Len(toHost') : toHost'[i] = ShellMessage(i)'
  <2>1. Unread' = First + Unread - 1 /\ Len(output') = Len(output) - First + 1
    BY <1>1, <1>5, <1>6, <1>8
  <2>2. UNCHANGED <<guest, nextLocal>> /\ toHost # <<>> /\ toHost' = Tail(toHost)
    BY <1>2 DEF ShellOkay, Receive, Incoming
  <2> QED
    BY <1>1, <1>4, <1>5, <1>7, <1>8, <2>1, <2>2, ShellRest
<1>10. ShellStream'
  BY <1>1, <1>4, <1>5, <1>7, <1>8, <1>9 DEF ShellStream, NoId
<1>11. Alone'
  BY <1>1 DEF CleanInv, Alone, OpenAt
<1> QED
  BY <1>1, <1>10, <1>11 DEF Flow

LEMMA ShellDataClean == ASSUME TypeInv, CleanInv, ShellData PROVE CleanInv'
<1> SUFFICES ASSUME clean PROVE Alone' /\ Flow'
  BY DEF CleanInv, ShellData
<1>1. /\ op = "shell" /\ stage = "output" /\ op' = op /\ stage' = stage /\ Local' = Local
      /\ Local \in Ids /\ remote \in 0..MaxOps
      /\ UNCHANGED <<remote, guest>> /\ Write(<<Ack(Local, remote)>>)
      /\ output' = Append(output, <<toHost[1].from, toHost[1].n>>)
  BY Busy, Received DEF ShellData, TypeInv, Sound, Local, Acknowledge
<1>2. /\ toHost[1].cmd = "WRTE" /\ Len(toHost) \in Nat \ {0} /\ toHost' \in Seq(Messages)
      /\ Len(toHost') = Len(toHost) - 1
      /\ \A i \in 1..Len(toHost') : toHost'[i] = toHost[i + 1]
  BY Received DEF ShellData
<1>3. ~NotOpen
  BY <1>2, NotOpenHead
<1>4. ShellStream
  BY <1>1, <1>3 DEF CleanInv, Flow
<1>5. /\ output \in Seq(Ids \X (0..MaxChunks)) /\ Len(output) \in Nat
      /\ guest[Local].said \in Nat /\ Unread \in Nat /\ First \in {0, 1}
      /\ guest[Local].said = Len(output) + Unread
  BY <1>1, <1>4, ShellHead
<1>6. First = 0 /\ First' = 0 /\ Unread >= 1 /\ toHost[1] = Text(Len(output) + 1)
  <2>1. Ack(Local, Local).cmd = "OKAY" /\ Close(Local, Local).cmd = "CLSE"
    BY Fields
  <2>2. First' = First
    BY <1>1 DEF First
  <2> QED
    BY <1>1, <1>2, <1>4, <1>5, <2>1, <2>2, ShellHead
<1>7. output' = Append(output, <<Local, Len(output) + 1>>)
  BY <1>1, <1>6, Fields DEF Text
<1>8. /\ Len(output') = Len(output) + 1 /\ Len(output') \in Nat
      /\ \A i \in 1..Len(output') : output'[i] = <<Local, i>>
  BY <1>4, <1>5, <1>7 DEF ShellStream, InOrder
<1>9. Settled'
  <2>1. Ack(Local, remote) \in Messages /\ Ack(Local, remote).cmd = "OKAY"
    BY <1>1, Busy, MadeAcks
  <2> QED
    BY <1>1, <1>4, <2>1, StillSettled DEF ShellStream
<1>10. Unread' = Unread - 1 /\ InOrder'
  <2>1. InOrder'
    BY <1>1, <1>8 DEF InOrder
  <2>2. Unread' = guest[Local].said - (Len(output) + 1)
    BY <1>1, <1>8 DEF Unread
  <2> QED
    BY <1>5, <2>1, <2>2
<1>11. /\ Len(toHost') = First' + Unread' + End'
       /\ \A i \in 1..Len(toHost') : toHost'[i] = ShellMessage(i)'
  <2>1. Unread' = First + Unread - 1 /\ Len(output') = Len(output) - First + 1 /\ Unread' \in Nat
    BY <1>5, <1>6, <1>8, <1>10
  <2>2. UNCHANGED <<guest, nextLocal>> /\ toHost # <<>> /\ toHost' = Tail(toHost)
    BY DEF ShellData, Receive, Incoming
  <2> QED
    BY <1>1, <1>4, <1>6, <1>8, <2>1, <2>2, ShellRest
<1>12. ShellStream'
  BY <1>1, <1>4, <1>5, <1>6, <1>9, <1>10, <1>11 DEF ShellStream, First
<1>13. Alone'
  BY <1>1 DEF CleanInv, Alone, OpenAt
<1> QED
  BY <1>1, <1>12, <1>13 DEF Flow

(* The output of a command that ended is its stream's. *)
LEMMA AllOfIt ==
    ASSUME TypeInv, InOrder, Local \in Ids, Unread = 0
    PROVE  output = Own(Local)
<1>1. /\ output \in Seq(Ids \X (0..MaxChunks)) /\ Len(output) \in Nat
      /\ guest[Local].said \in Nat /\ Len(output) = guest[Local].said
  BY StreamsNow DEF TypeInv, TypeOK, Streams, Unread
<1>2. output = [i \in 1..Len(output) |-> output[i]]
  BY <1>1
<1>3. \A i \in 1..Len(output) : output[i] = <<Local, i>>
  BY DEF InOrder
<1>4. output = [i \in 1..Len(output) |-> <<Local, i>>]
  BY <1>2, <1>3
<1> QED
  BY <1>1, <1>4 DEF Own

LEMMA ShellEndsClean ==
    ASSUME TypeInv, CleanInv, ShellEnds
    PROVE  CleanInv' /\ (clean => Frozen' /\ SuccessIsTrue')
<1> SUFFICES ASSUME clean PROVE Alone' /\ Flow' /\ Frozen' /\ SuccessIsTrue'
  BY DEF CleanInv, ShellEnds
<1>1. /\ op = "shell" /\ stage = "output" /\ op' = "none" /\ stage' = "idle" /\ Local' = Local
      /\ Local \in Ids /\ remote \in 0..MaxOps /\ result'.op = "shell"
      /\ UNCHANGED <<output, toGuest, guest>>
  BY Busy DEF ShellEnds, Return, TypeInv, Sound, Local
<1>2. /\ toHost[1].cmd = "CLSE" /\ Len(toHost) \in Nat \ {0} /\ toHost' \in Seq(Messages)
      /\ Len(toHost') = Len(toHost) - 1
  BY Received DEF ShellEnds
<1>3. output \in Seq(Ids \X (0..MaxChunks)) /\ Len(output) \in Nat /\ guest[Local].said \in Nat
  BY <1>1, StreamsNow DEF TypeInv, TypeOK, Streams
<1>4. /\ Settled /\ InOrder /\ Unread = 0 /\ Len(toHost) = 1
      /\ guest[Local].service \in {"none", "closed"} /\ guest[Local].replies = <<>>
  <2>1. CASE NotOpen
    <3>1. Settled /\ Len(toHost) = 1 /\ output = <<>> /\ guest[Local] = NoStream
      BY <1>2, <2>1, NotOpenHead DEF NotOpen
    <3> QED
      BY <3>1 DEF InOrder, Unread, NoStream
  <2>2. CASE ShellStream
    <3>1. Ack(Local, Local).cmd = "OKAY" /\ Text(Len(output) + 1).cmd = "WRTE"
      BY Fields DEF Text
    <3>2. First = 0 /\ Unread = 0 /\ Len(toHost) = 1 /\ guest[Local].service = "closed"
      BY <1>1, <1>2, <2>2, <3>1, ShellHead
    <3> QED
      BY <2>2, <3>2 DEF ShellStream
  <2> QED
    BY <1>1, <2>1, <2>2 DEF CleanInv, Flow
<1>5. toHost' = <<>>
  BY <1>2, <1>4
<1>6. Alone'
  BY <1>1, <1>4, <1>5 DEF CleanInv, Alone, OpenAt, Settled
<1>7. Flow'
  BY <1>1 DEF Flow
<1>8. Frozen'
  BY <1>1, <1>4 DEF Frozen, Settled
<1>9. SuccessIsTrue'
  <2>1. output' = Own(Local)'
    BY <1>1, <1>4, AllOfIt DEF Own
  <2> QED
    BY <1>1, <2>1 DEF SuccessIsTrue
<1> QED
  BY <1>6, <1>7, <1>8, <1>9

(* A transfer has asked for something. *)
LEMMA RequestPending ==
    ASSUME TypeInv, Settled, op \in SyncOps, NEW r \in Requests, Request(Local, r), UNCHANGED guest
    PROVE  /\ Local \in Ids /\ Local' = Local /\ Pending(Asking)' /\ ~Settled'
           /\ stage' = "ack" /\ request' = r /\ remote' = Local /\ op' = op
<1>1. Local \in Ids /\ Local \in 0..MaxOps
  BY Busy DEF SyncOps
<1>2. /\ stage' = "ack" /\ request' = r /\ remote' = Local /\ op' = op /\ Local' = Local
      /\ Write(<<Message("WRTE", Local, Local, r, 0)>>)
  BY DEF Request, Local
<1>3. Asking' = Message("WRTE", Local, Local, r, 0)
  BY <1>2 DEF Asking
<1> DEFINE m == Message("WRTE", Local, Local, r, 0)
<1>4. m \in Messages /\ m.cmd = "WRTE"
  <2>1. 0 \in 0..MaxChunks
    BY BoundsAssumption
  <2>2. m \in Messages
    <3>1. r \in Requests \cup Chunks \cup {"", "shell", "sync", "QUIT"}
      OBVIOUS
    <3> QED
      BY <1>1, <2>1, <3>1, Made
  <2> QED
    BY <2>2, Fields
<1> HIDE DEF m
<1>5. /\ toGuest' # <<>> /\ toGuest'[Len(toGuest')] = m
      /\ \A i \in 1..(Len(toGuest') - 1) : toGuest'[i].cmd = "OKAY"
  BY <1>2, <1>4, NowPending DEF m
<1>6. Pending(Asking)'
  BY <1>3, <1>5 DEF Pending, m
<1>7. ~Settled'
  <2>1. toGuest \in Seq(Messages) /\ toGuest' = toGuest \o <<m>>
    BY <1>2 DEF TypeInv, TypeOK, Write, m
  <2>2. toGuest' \in Seq(Messages)
    BY <1>4, <2>1, AddOne
  <2>3. Len(toGuest') \in 1..Len(toGuest')
    BY <1>5, <2>2, TakeOne
  <2> QED
    BY <1>4, <1>5, <2>3 DEF Settled
<1> QED
  BY <1>1, <1>2, <1>6, <1>7

LEMMA SyncOpenedClean == ASSUME TypeInv, CleanInv, SyncOpened PROVE CleanInv'
<1> SUFFICES ASSUME clean PROVE Alone' /\ Flow'
  BY DEF CleanInv, SyncOpened, Request
<1>1. /\ op \in SyncOps /\ stage = "opened" /\ Local \in Ids /\ Local' = Local
      /\ UNCHANGED <<op, guest>>
  BY Busy DEF SyncOpened, Request, TypeInv, TypeOK, Sound, Local
<1>2. toHost[1].cmd = "OKAY" /\ Head(toHost) = toHost[1] /\ toHost # <<>> /\ toHost' = Tail(toHost)
  BY Received DEF SyncOpened, Incoming, Receive
<1>3. SyncOpen
  BY <1>1, <1>2, NotOpenHead DEF CleanInv, Flow
<1>4. Settled /\ toHost = <<Ack(Local, Local)>> /\ output = <<>>
  BY <1>3 DEF SyncOpen
<1>5. toHost' = <<>> /\ Head(toHost).from = Local
  BY <1>2, <1>4, Fields
<1>6. PICK r \in {"SEND", "RECV"} : Request(Local, r) /\ (r = "SEND" <=> op = "push")
  BY <1>5 DEF SyncOpened
<1>7. r \in Requests /\ r # "DATA"
  BY DEF Requests
<1>8. /\ Pending(Asking)' /\ ~Settled' /\ stage' = "ack" /\ request' = r /\ remote' = Local
      /\ op' = op /\ output' = <<>>
  BY <1>1, <1>4, <1>6, <1>7, RequestPending DEF Request
<1>9. Exchange'
  BY <1>1, <1>3, <1>5, <1>8 DEF Exchange, InOrder, SyncOpen
<1>10. op = "push" => PushStream'
  BY <1>1, <1>3, <1>5, <1>6, <1>8, BoundsAssumption DEF PushStream, OneAck, SyncOpen
<1>11. op = "pull" => PullStream'
  BY <1>1, <1>3, <1>5, <1>6, <1>8 DEF PullStream, NotPulling, SyncOpen
<1>12. Alone'
  BY <1>1, <1>8 DEF CleanInv, Alone, OpenAt, SyncOps
<1>13. Flow'
  BY <1>1, <1>8, <1>9, <1>10, <1>11 DEF Flow, SyncOps
<1> QED
  BY <1>12, <1>13

(* A push. *)
LEMMA PushAckedClean ==
    ASSUME TypeInv, CleanInv, Acked, op = "push"
    PROVE  CleanInv'
<1> SUFFICES ASSUME clean, clean' PROVE Alone' /\ Flow'
  BY DEF CleanInv, Acked, Request, Fails
<1>1. /\ stage = "ack" /\ Local \in Ids /\ Local' = Local
      /\ UNCHANGED <<op, guest>>
  BY Busy DEF Acked, Request, TypeInv, TypeOK, Local, Fails
<1>2. /\ toHost[1].cmd = "OKAY" /\ Len(toHost) \in Nat \ {0} /\ toHost' \in Seq(Messages)
      /\ Len(toHost') = Len(toHost) - 1 /\ 1 \in 1..Len(toHost)
      /\ \A i \in 1..Len(toHost') : toHost'[i] = toHost[i + 1] /\ i + 1 \in 1..Len(toHost)
  BY Received DEF Acked
<1>3. Exchange /\ PushStream
  BY <1>1 DEF CleanInv, Flow
<1>4. Settled /\ \A i \in 1..Len(toHost') : toHost'[i].cmd # "OKAY"
  <2>1. Settled /\ \A j \in 1..Len(toHost) : toHost[j].cmd = "OKAY" => 1 = j
    BY <1>2, <1>3 DEF PushStream, OneAck
  <2> SUFFICES ASSUME NEW i \in 1..Len(toHost'), toHost'[i].cmd = "OKAY" PROVE FALSE
    BY <2>1
  <2>2. i + 1 = 1
    BY <1>2, <2>1
  <2> QED
    BY <1>2, <2>2
<1>5. /\ \A i \in 1..Len(toHost') : /\ toHost'[i].to = Local /\ toHost'[i].from = Local
                                   /\ toHost'[i].cmd = "WRTE"
      /\ \A i \in 1..Len(toHost') : toHost'[i].data \in {"OKAY", "FAIL"}
      /\ \A i \in 1..Len(toHost') : toHost'[i].data = "OKAY" =>
             request = "DONE" /\ ~guest[Local].fails /\ guest[Local].replies = <<>>
  <2> SUFFICES ASSUME NEW i \in 1..Len(toHost')
               PROVE  /\ toHost'[i].to = Local /\ toHost'[i].from = Local
                      /\ toHost'[i].cmd = "WRTE" /\ toHost'[i].data \in {"OKAY", "FAIL"}
                      /\ toHost'[i].data = "OKAY" =>
                             request = "DONE" /\ ~guest[Local].fails /\ guest[Local].replies = <<>>
    OBVIOUS
  <2>1. toHost'[i] = toHost[i + 1] /\ i + 1 \in 1..Len(toHost)
    BY <1>2
  <2>2. /\ toHost'[i].to = Local /\ toHost'[i].from = Local /\ toHost'[i].cmd = "WRTE"
    BY <1>3, <1>4, <2>1 DEF Exchange
  <2>3. /\ toHost'[i].data \in {"OKAY", "FAIL"}
        /\ toHost'[i].data = "OKAY" =>
               request = "DONE" /\ ~guest[Local].fails /\ guest[Local].replies = <<>>
    BY <1>3, <2>1, <2>2 DEF PushStream
  <2> QED
    BY <2>2, <2>3
<1>6. output \in Seq(Ids \X (0..MaxChunks)) /\ Len(output) \in Nat /\ Len(output) <= MaxChunks
      /\ guest[Local].said = Len(output)
  BY <1>3, <1>4 DEF PushStream, TypeInv, TypeOK
<1>7. Alone'
  BY <1>1 DEF CleanInv, Alone, OpenAt
<1>8. ASSUME request \in {"SEND", "DATA"}, NEW r \in NextRequests, Request(remote, r)
      PROVE  Flow'
  <2>1. r \in Requests /\ r \in {"DATA", "DONE"} /\ (r = "DATA" => Len(output) < MaxChunks)
    BY <1>8 DEF Requests, NextRequests
  <2>2. Request(Local, r) /\ op \in SyncOps
    BY <1>3, <1>8 DEF Exchange, SyncOps
  <2>3. /\ Pending(Asking)' /\ ~Settled' /\ stage' = "ack" /\ request' = r /\ remote' = Local
    BY <1>1, <1>4, <2>1, <2>2, RequestPending
  <2>4. /\ InOrder' /\ Len(output') <= MaxChunks
        /\ guest[Local].said = (IF r # "DATA" THEN Len(output') ELSE Len(output') - 1)
    <3>1. CASE r = "DATA"
      <4>1. output' = Append(output, <<Local, Len(output) + 1>>)
        BY <2>2, <3>1 DEF Request
      <4>2. Len(output') = Len(output) + 1
            /\ \A i \in 1..Len(output') : output'[i] = <<Local, i>>
        BY <1>3, <1>6, <4>1 DEF Exchange, InOrder
      <4> QED
        BY <1>1, <1>6, <2>1, <3>1, <4>2, BoundsAssumption DEF InOrder
    <3>2. CASE r # "DATA"
      BY <1>1, <1>3, <1>6, <2>2, <3>2 DEF Exchange, InOrder, Request
    <3> QED
      BY <3>1, <3>2
  <2>5. Exchange'
    BY <1>1, <1>3, <1>5, <2>3, <2>4 DEF Exchange
  <2>6. PushStream'
    BY <1>1, <1>3, <1>4, <1>5, <1>8, <2>1, <2>3, <2>4 DEF PushStream, OneAck
  <2> QED
    BY <1>1, <2>3, <2>5, <2>6 DEF Flow
<1>9. ASSUME request \in {"DONE", "RECV"}, stage' = "reply",
             UNCHANGED <<op, request, remote, output, nextLocal, streams, result, clean, toGuest>>
      PROVE  Flow'
  <2>1. Settled' /\ InOrder'
    BY <1>1, <1>3, <1>4, <1>9 DEF Exchange, InOrder, Settled
  <2>2. Exchange'
    BY <1>1, <1>3, <1>5, <1>9, <2>1 DEF Exchange
  <2>3. PushStream'
    BY <1>1, <1>3, <1>4, <1>5, <1>6, <1>9, <2>1 DEF PushStream, OneAck
  <2> QED
    BY <1>1, <1>9, <2>2, <2>3 DEF Flow
<1> QED
  BY <1>7, <1>8, <1>9 DEF Acked, Fails

(* A pull. *)
LEMMA PullHead ==
    ASSUME TypeInv, PullStream, Local \in Ids, toHost # <<>>
    PROVE  /\ Settled /\ Pulling
           /\ output \in Seq(Ids \X (0..MaxChunks)) /\ Len(output) \in Nat
           /\ guest[Local].said \in Nat /\ Unread \in Nat /\ Leading \in {0, 1}
           /\ guest[Local].said = Len(output) + Unread
           /\ Leading = 1 => toHost[1] = Ack(Local, Local)
           /\ Leading = 0 /\ Unread >= 1 => toHost[1] = Piece(Len(output) + 1)
           /\ Leading = 0 /\ Unread = 0 =>
                  /\ toHost[1].data \in {"DONE", "FAIL"} /\ Len(toHost) = 1
                  /\ toHost[1].cmd = "WRTE" /\ guest[Local].replies = <<>>
<1>1. /\ output \in Seq(Ids \X (0..MaxChunks)) /\ Len(output) \in Nat
      /\ guest[Local].said \in Nat
  BY StreamsNow DEF TypeInv, TypeOK, Streams
<1>2. Settled /\ Pulling
  BY DEF PullStream, NotPulling
<1>3. Unread \in Nat /\ Leading \in {0, 1} /\ guest[Local].said = Len(output) + Unread
  <2>1. Unread >= 0
    BY <1>2 DEF Pulling
  <2> QED
    BY <1>1, <2>1 DEF Unread, Leading
<1>4. Len(toHost) \in Nat \ {0} /\ 1 \in 1..Len(toHost)
  BY TakeOne DEF TypeInv, TypeOK
<1>5. IF 1 <= Leading THEN toHost[1] = Ack(Local, Local)
      ELSE IF 1 <= Leading + Unread THEN toHost[1] = Piece(Len(output) + 1 - Leading)
      ELSE toHost[1].cmd = "WRTE" /\ toHost[1].data \in {"DONE", "FAIL"}
  BY <1>2, <1>4 DEF Pulling, PullMessage
<1>6. Leading = 0 => Len(output) + 1 - Leading = Len(output) + 1
  BY <1>1
<1>7. Leading = 0 /\ Unread = 0 => Len(toHost) = 1 /\ guest[Local].replies = <<>>
  BY <1>2, <1>4 DEF Pulling
<1> QED
  BY <1>1, <1>2, <1>3, <1>5, <1>6, <1>7

LEMMA PullRest ==
    ASSUME TypeInv, PullStream, Local \in Ids, UNCHANGED <<guest, nextLocal>>,
           toHost # <<>>, toHost' = Tail(toHost), Leading + Unread >= 1,
           Leading' = 0, Len(output') \in Nat, Len(output') = Len(output) - Leading + 1
    PROVE  Pulling'
<1>1. /\ Len(toHost) \in Nat \ {0} /\ Len(toHost') = Len(toHost) - 1 /\ Len(toHost') \in Nat
      /\ \A i \in 1..Len(toHost') : toHost'[i] = toHost[i + 1]
  BY TakeOne DEF TypeInv, TypeOK
<1>2. /\ Len(output) \in Nat /\ Unread \in Nat /\ Leading \in {0, 1} /\ Local' = Local
      /\ Pulling /\ guest[Local].said = Len(output) + Unread
  BY PullHead DEF Local
<1>3. Unread' = Leading + Unread - 1
  <2>1. Unread' = guest[Local].said - Len(output')
    BY <1>2 DEF Unread
  <2> QED
    BY <1>2, <2>1
<1>4. \/ Len(toHost') = Leading' + Unread'
      \/ Len(toHost') = Leading' + Unread' + 1 /\ guest'[Local'].replies = <<>>
  <2>1. \/ Len(toHost) = Leading + Unread
        \/ Len(toHost) = Leading + Unread + 1 /\ guest[Local].replies = <<>>
    BY <1>2 DEF Pulling
  <2> QED
    BY <1>1, <1>2, <1>3, <2>1
<1>5. ASSUME NEW i \in 1..Len(toHost') PROVE PullMessage(i)'
  <2>1. i \in Nat /\ i >= 1 /\ i + 1 \in 1..Len(toHost) /\ toHost'[i] = toHost[i + 1]
    BY <1>1, <1>5
  <2>2. PullMessage(i + 1)
    BY <1>2, <2>1 DEF Pulling
  <2>3. /\ ~(i <= Leading') /\ ~(i + 1 <= Leading)
        /\ i <= Leading' + Unread' <=> i + 1 <= Leading + Unread
        /\ Len(output') + i - Leading' = Len(output) + (i + 1) - Leading
    <3>1. ~(i <= Leading') /\ ~(i + 1 <= Leading)
      BY <1>2, <2>1
    <3>2. i <= Leading' + Unread' <=> i + 1 <= Leading + Unread
      BY <1>2, <1>3, <2>1
    <3>3. Len(output') + i - Leading' = Len(output) + (i + 1) - Leading
      BY <1>2, <2>1
    <3> QED
      BY <3>1, <3>2, <3>3
  <2> DEFINE n == Len(output) + (i + 1) - Leading
  <2>4. IF i + 1 <= Leading + Unread THEN toHost[i + 1] = Piece(n)
        ELSE toHost[i + 1].cmd = "WRTE" /\ toHost[i + 1].data \in {"DONE", "FAIL"}
    BY <2>2, <2>3 DEF PullMessage
  <2>5. IF i + 1 <= Leading + Unread THEN toHost'[i] = Message("WRTE", Local', Local', "DATA", n)
        ELSE toHost'[i].cmd = "WRTE" /\ toHost'[i].data \in {"DONE", "FAIL"}
    BY <1>2, <2>1, <2>4 DEF Piece
  <2> QED
    BY <2>3, <2>5 DEF PullMessage, Piece
<1>6. /\ LastReply(guest'[Local'].replies)
      /\ guest'[Local'].replies # <<>> =>
             guest'[Local'].said + Len(guest'[Local'].replies) - 1 <= MaxChunks
  BY <1>2 DEF Pulling
<1>7. Unread' >= 0
  BY <1>2, <1>3
<1> QED
  BY <1>4, <1>5, <1>6, <1>7 DEF Pulling

LEMMA PullAckedClean ==
    ASSUME TypeInv, CleanInv, Acked, op = "pull"
    PROVE  CleanInv'
<1> SUFFICES ASSUME clean, clean' PROVE Alone' /\ Flow'
  BY DEF CleanInv, Acked, Request, Fails
<1>1. /\ stage = "ack" /\ Local \in Ids /\ Local' = Local
      /\ UNCHANGED <<op, guest>>
  BY Busy DEF Acked, Request, TypeInv, TypeOK, Local, Fails
<1>2. /\ toHost[1].cmd = "OKAY" /\ Len(toHost) \in Nat \ {0} /\ toHost' \in Seq(Messages)
      /\ Len(toHost') = Len(toHost) - 1 /\ toHost # <<>> /\ toHost' = Tail(toHost)
      /\ \A i \in 1..Len(toHost') : toHost'[i] = toHost[i + 1] /\ i + 1 \in 1..Len(toHost)
  BY Received DEF Acked, Incoming, Receive
<1>3. Exchange /\ PullStream
  BY <1>1 DEF CleanInv, Flow
<1>4. /\ stage' = "reply"
      /\ UNCHANGED <<op, request, remote, output, nextLocal, streams, result, clean, toGuest>>
  BY <1>3 DEF Acked, PullStream, Fails
<1>5. Settled /\ output = <<>> /\ Leading = 1 /\ Leading' = 0
  BY <1>1, <1>2, <1>3, <1>4, PullHead DEF PullStream, Leading
<1>6. Pulling'
  <2>1. Unread \in Nat /\ Len(output) = 0
    BY <1>1, <1>2, <1>3, <1>5, PullHead
  <2>2. /\ UNCHANGED <<guest, nextLocal>> /\ Len(output') = Len(output) - Leading + 1
        /\ Len(output') \in Nat /\ Leading + Unread >= 1
    BY <1>1, <1>4, <1>5, <2>1
  <2> QED
    BY <1>1, <1>2, <1>3, <1>5, <2>2, PullRest
<1>7. Settled' /\ InOrder'
  BY <1>1, <1>3, <1>4, <1>5 DEF Exchange, InOrder, Settled
<1>8. PullStream'
  BY <1>3, <1>4, <1>6, <1>7 DEF PullStream
<1>9. Exchange'
  <2>1. \A i \in 1..Len(toHost') :
           /\ toHost'[i].to = Local /\ toHost'[i].from = Local
           /\ toHost'[i].cmd \in {"OKAY", "WRTE"}
    BY <1>2, <1>3 DEF Exchange
  <2>2. remote = Local /\ guest[Local].service = "sync" /\ request = "RECV"
    BY <1>3 DEF Exchange, PullStream
  <2> QED
    BY <1>1, <1>4, <1>7, <2>1, <2>2 DEF Exchange
<1>10. Alone'
  BY <1>1 DEF CleanInv, Alone, OpenAt
<1> QED
  BY <1>1, <1>4, <1>8, <1>9, <1>10 DEF Flow

LEMMA AckedClean == ASSUME TypeInv, CleanInv, Acked PROVE CleanInv'
<1>1. op \in SyncOps
  BY DEF Acked, TypeInv, TypeOK, Sound
<1> QED
  BY <1>1, PushAckedClean, PullAckedClean DEF SyncOps

(* Where a transfer stands when it reads a reply. *)
LEMMA ReplyAt ==
    ASSUME TypeInv, CleanInv, Reply, clean
    PROVE  /\ op \in SyncOps /\ stage = "reply" /\ Local \in Ids /\ remote = Local
           /\ Exchange /\ Settled
           /\ op = "push" => PushStream
           /\ op = "pull" => PullStream
           /\ Head(toHost) = toHost[1] /\ toHost[1].cmd = "WRTE" /\ toHost # <<>>
           /\ toHost' = Tail(toHost) /\ toHost' \in Seq(Messages)
           /\ Len(toHost) \in Nat \ {0} /\ 1 \in 1..Len(toHost)
           /\ Len(toHost') = Len(toHost) - 1
           /\ \A i \in 1..Len(toHost') : toHost'[i] = toHost[i + 1] /\ i + 1 \in 1..Len(toHost)
           /\ UNCHANGED <<up, guest, torn>>
<1>1. op \in SyncOps /\ stage = "reply" /\ Local \in Ids
  BY Busy DEF Reply, SyncOps
<1>2. Exchange /\ (op = "push" => PushStream) /\ (op = "pull" => PullStream)
  BY <1>1 DEF CleanInv, Flow
<1>3. /\ Head(toHost) = toHost[1] /\ toHost[1].cmd = "WRTE" /\ toHost # <<>>
      /\ toHost' = Tail(toHost) /\ toHost' \in Seq(Messages)
      /\ Len(toHost) \in Nat \ {0} /\ 1 \in 1..Len(toHost)
      /\ Len(toHost') = Len(toHost) - 1
      /\ \A i \in 1..Len(toHost') : toHost'[i] = toHost[i + 1] /\ i + 1 \in 1..Len(toHost)
  BY Received DEF Reply, Incoming, Receive
<1>4. Settled
  BY <1>1, <1>2 DEF Exchange
<1>5. UNCHANGED <<up, guest, torn>>
  BY DEF Reply, Receive
<1>6. remote = Local
  BY <1>2 DEF Exchange
<1> QED
  BY <1>1, <1>2, <1>3, <1>4, <1>5, <1>6

(* The next piece of a pull. *)
LEMMA PieceClean ==
    ASSUME TypeInv, CleanInv, Reply, clean, op = "pull",
           output' = Append(output, <<Head(toHost).from, Head(toHost).n>>),
           Head(toHost).data = "DATA", Write(ReplyAck),
           UNCHANGED <<op, stage, request, remote, nextLocal, streams, result, clean>>
    PROVE  CleanInv'
<1>1. /\ stage = "reply" /\ Local \in Ids /\ Local' = Local /\ remote = Local /\ Settled
      /\ Exchange /\ PullStream
      /\ Head(toHost) = toHost[1] /\ toHost[1].data = "DATA" /\ toHost # <<>>
      /\ toHost' = Tail(toHost) /\ UNCHANGED guest
      /\ Leading = 0 /\ Leading' = 0
      /\ \A i \in 1..Len(toHost') : toHost'[i] = toHost[i + 1] /\ i + 1 \in 1..Len(toHost)
  BY ReplyAt DEF Leading, Local
<1>2. /\ Unread \in Nat /\ Len(output) \in Nat /\ Unread >= 1 /\ toHost[1] = Piece(Len(output) + 1)
      /\ output \in Seq(Ids \X (0..MaxChunks))
  BY <1>1, PullHead
<1>3. output' = Append(output, <<Local, Len(output) + 1>>)
  BY <1>1, <1>2, Fields DEF Piece
<1>4. /\ Len(output') = Len(output) + 1 /\ Len(output') \in Nat
      /\ \A i \in 1..Len(output') : output'[i] = <<Local, i>>
  BY <1>1, <1>2, <1>3 DEF Exchange, InOrder
<1>5. Pulling'
  <2>1. Leading + Unread >= 1 /\ Len(output') = Len(output) - Leading + 1
    BY <1>1, <1>2, <1>4
  <2>2. UNCHANGED <<guest, nextLocal>>
    BY <1>1
  <2> QED
    BY <1>1, <1>4, <2>1, <2>2, PullRest
<1>6. Settled'
  <2>1. Ack(Local, remote) \in Messages /\ Ack(Local, remote).cmd = "OKAY"
    BY <1>1, Busy, MadeAcks DEF Ids, SyncOps
  <2> QED
    BY <1>1, <2>1, StillSettled DEF ReplyAck
<1>7. PullStream'
  BY <1>1, <1>5, <1>6 DEF PullStream
<1>8. Exchange'
  <2>1. \A i \in 1..Len(toHost') :
           /\ toHost'[i].to = Local /\ toHost'[i].from = Local
           /\ toHost'[i].cmd \in {"OKAY", "WRTE"}
    BY <1>1 DEF Exchange
  <2>2. remote = Local /\ guest[Local].service = "sync" /\ request = "RECV"
    BY <1>1 DEF Exchange, PullStream
  <2>3. InOrder'
    BY <1>1, <1>4 DEF InOrder
  <2> QED
    BY <1>1, <1>6, <2>1, <2>2, <2>3 DEF Exchange
<1>9. Alone'
  BY <1>1 DEF CleanInv, Alone, OpenAt
<1> QED
  BY <1>1, <1>7, <1>8, <1>9 DEF CleanInv, Flow

(* A transfer that ended well. *)
LEMMA WellEnded ==
    ASSUME TypeInv, CleanInv, Reply, clean, UNCHANGED output, CloseSession(TRUE, ReplyAck),
           \/ op = "push" /\ Head(toHost).data = "OKAY"
           \/ op = "pull" /\ Head(toHost).data = "DONE"
    PROVE  Frozen' /\ SuccessIsTrue'
<1>1. /\ op \in SyncOps /\ stage = "reply" /\ Local \in Ids /\ remote = Local /\ Settled
      /\ Exchange /\ Head(toHost) = toHost[1] /\ toHost # <<>> /\ toHost[1].cmd = "WRTE"
      /\ UNCHANGED guest /\ 1 \in 1..Len(toHost)
      /\ op = "push" => PushStream
      /\ op = "pull" => PullStream
  BY ReplyAt
<1>2. /\ op' = "none" /\ Local' = Local /\ result'.op = op /\ UNCHANGED output
  BY DEF CloseSession, Return, Local
<1>3. guest[Local].replies = <<>> /\ Unread = 0 /\ (op = "push" => ~guest[Local].fails)
  <2>1. CASE op = "push"
    <3>1. PushStream /\ toHost[1].data = "OKAY"
      BY <1>1, <2>1
    <3>2. output \in Seq(Ids \X (0..MaxChunks)) /\ guest[Local].said = Len(output) /\ Len(output) \in Nat
      BY <1>1, <3>1 DEF PushStream, TypeInv, TypeOK
    <3> QED
      BY <1>1, <3>1, <3>2 DEF PushStream, Unread
  <2>2. CASE op = "pull"
    <3>1. PullStream /\ toHost[1].data = "DONE" /\ Leading = 0
      BY <1>1, <2>2 DEF Leading
    <3>2. Piece(Len(output) + 1).data = "DATA"
      BY Fields DEF Piece
    <3>3. Unread = 0 /\ guest[Local].replies = <<>>
      BY <1>1, <3>1, <3>2, PullHead
    <3> QED
      BY <2>2, <3>3
  <2> QED
    BY <1>1, <2>1, <2>2 DEF SyncOps
<1>4. output = Own(Local)
  BY <1>1, <1>3, AllOfIt DEF Exchange
<1>5. \A i \in 1..Len(toGuest') :
          toGuest'[i].cmd # "OPEN" /\ (toGuest'[i].cmd = "WRTE" => toGuest'[i].data = "QUIT")
  <2> DEFINE quit == Message("WRTE", Local, remote, "QUIT", 0)
  <2>1. /\ Ack(Local, remote) \in Messages /\ Close(Local, remote) \in Messages
        /\ Ack(Local, remote).cmd = "OKAY" /\ Close(Local, remote).cmd = "CLSE"
    BY <1>1, Busy, MadeAcks DEF SyncOps
  <2>2. quit \in Messages /\ quit.cmd = "WRTE" /\ quit.data = "QUIT"
    <3>1. 0 \in 0..MaxChunks
      BY BoundsAssumption
    <3>2. "QUIT" \in Requests \cup Chunks \cup {"", "shell", "sync", "QUIT"}
      OBVIOUS
    <3>3. quit \in Messages
      BY <1>1, <3>1, <3>2, Busy, Made DEF SyncOps
    <3> QED
      BY <3>3, Fields
  <2>3. toGuest' = toGuest \o <<Ack(Local, remote), quit, Close(Local, remote)>>
    BY <2>1, <2>2 DEF CloseSession, ReplyAck, Write
  <2> HIDE DEF quit
  <2>4. /\ Len(toGuest') = Len(toGuest) + 3 /\ Len(toGuest) \in Nat
        /\ toGuest'[Len(toGuest) + 1] = Ack(Local, remote) /\ toGuest'[Len(toGuest) + 2] = quit
        /\ toGuest'[Len(toGuest) + 3] = Close(Local, remote)
        /\ \A i \in 1..Len(toGuest) : toGuest'[i] = toGuest[i]
    BY <2>1, <2>2, <2>3, WroteThree
  <2> SUFFICES ASSUME NEW i \in 1..Len(toGuest')
               PROVE  toGuest'[i].cmd # "OPEN" /\ (toGuest'[i].cmd = "WRTE" => toGuest'[i].data = "QUIT")
    OBVIOUS
  <2>5. CASE i \in 1..Len(toGuest)
    BY <1>1, <2>4, <2>5 DEF Settled
  <2>6. CASE i \in {Len(toGuest) + 1, Len(toGuest) + 2, Len(toGuest) + 3}
    BY <2>1, <2>2, <2>4, <2>6
  <2> QED
    BY <2>4, <2>5, <2>6
<1>6. Frozen'
  <2>1. guest'[Local'].service # "shell" /\ guest'[Local'].replies = <<>> /\ Local' \in Ids
    BY <1>1, <1>2, <1>3 DEF Exchange
  <2> QED
    BY <1>5, <2>1 DEF Frozen
<1>7. SuccessIsTrue'
  <2>1. output' = Own(Local)' /\ guest'[Local'].fails = guest[Local].fails
    BY <1>1, <1>2, <1>4 DEF Own
  <2> QED
    BY <1>2, <1>3, <2>1 DEF SuccessIsTrue
<1> QED
  BY <1>6, <1>7

LEMMA ReplyClean ==
    ASSUME TypeInv, CleanInv, Reply
    PROVE  CleanInv' /\ Frozen' /\ SuccessIsTrue'
<1>1. CASE op' # "none"
  <2>1. /\ output' = Append(output, <<Head(toHost).from, Head(toHost).n>>) /\ op = "pull"
        /\ Head(toHost).data = "DATA" /\ Write(ReplyAck)
        /\ UNCHANGED <<op, stage, request, remote, nextLocal, streams, result, clean>>
    BY <1>1 DEF Reply, CloseSession, Return, Fails
  <2>2. CleanInv'
    BY <2>1, PieceClean DEF CleanInv
  <2> QED
    BY <1>1, <2>2 DEF Frozen, SuccessIsTrue
<1>2. CASE op' = "none"
  <2>1. op # "none"
    BY DEF Reply
  <2>2. \/ \E ok \in BOOLEAN : CloseSession(ok, ReplyAck) /\ UNCHANGED output
               /\ (ok => \/ op = "push" /\ Head(toHost).data \in {"OKAY", "text"}
                         \/ op = "pull" /\ Head(toHost).data = "DONE")
        \/ Fails
    BY <1>2, <2>1 DEF Reply, Accepted
  <2>3. clean' = FALSE /\ result'.clean = clean
    BY <2>2 DEF CloseSession, Fails, Return
  <2>4. ASSUME result'.ok, clean PROVE Frozen' /\ SuccessIsTrue'
    <3>1. /\ CloseSession(TRUE, ReplyAck) /\ UNCHANGED output
          /\ \/ op = "push" /\ Head(toHost).data \in {"OKAY", "text"}
             \/ op = "pull" /\ Head(toHost).data = "DONE"
      BY <2>2, <2>4 DEF CloseSession, Fails, Return
    <3>2. op = "push" => Head(toHost).data = "OKAY"
      <4> SUFFICES ASSUME op = "push" PROVE Head(toHost).data \in {"OKAY", "FAIL"}
        BY <3>1
      <4> QED
        BY <2>4, ReplyAt DEF PushStream
    <3> QED
      BY <2>4, <3>1, <3>2, WellEnded
  <2> QED
    BY <2>3, <2>4 DEF CleanInv, Frozen, SuccessIsTrue
<1> QED
  BY <1>1, <1>2

LEMMA ConnectClean == ASSUME TypeInv, Connect PROVE CleanInv' /\ Frozen' /\ SuccessIsTrue'
<1>1. Alone'
  BY DEF Connect, Alone, Settled, OpenAt, NoStream
<1>2. Flow'
  BY DEF Connect, Flow, TypeInv, Sound
<1>3. Frozen' /\ SuccessIsTrue'
  BY DEF Connect, Frozen, SuccessIsTrue
<1> QED
  BY <1>1, <1>2, <1>3 DEF CleanInv

(* What ends an operation badly leaves no clean connection and no success. *)
LEMMA BadlyEnded ==
    ASSUME op # "none", ShellTimesOut \/ OpenTimesOut \/ Cancel \/ Unexpected \/ ReadFails
    PROVE  CleanInv' /\ Frozen' /\ SuccessIsTrue'
<1>1. clean' = FALSE /\ result'.ok = FALSE
  BY DEF ShellTimesOut, OpenTimesOut, Cancel, Unexpected, ReadFails, Fails, Return
<1> QED
  BY <1>1 DEF CleanInv, Frozen, SuccessIsTrue

(* The guest takes an acknowledgment. *)
LEMMA TakesAck ==
    ASSUME TypeInv, GuestTakes, Head(toGuest).cmd = "OKAY"
    PROVE  /\ UNCHANGED <<clientVars, toHost>>
           /\ \A k \in Ids :
                  /\ guest'[k].service = guest[k].service /\ guest'[k].replies = guest[k].replies
                  /\ guest'[k].said = guest[k].said /\ guest'[k].fails = guest[k].fails
                  /\ guest[k] = NoStream => guest'[k] = NoStream
<1> DEFINE m == Head(toGuest)
<1>1. UNCHANGED clientVars /\ guest \in [Ids -> Streams] /\ GuestReads
  BY StreamsNow DEF GuestTakes, GuestOpens
<1>2. \/ UNCHANGED <<toHost, guest>>
      \/ OpenAt(m.to) /\ Set(m.to, "ready", TRUE) /\ UNCHANGED toHost
  BY <1>1 DEF GuestReads
<1>3. CASE UNCHANGED <<toHost, guest>>
  BY <1>1, <1>3
<1>4. CASE OpenAt(m.to) /\ Set(m.to, "ready", TRUE) /\ UNCHANGED toHost
  <2>1. m.to \in Ids /\ guest[m.to].service \in {"shell", "sync"}
    BY <1>4 DEF OpenAt
  <2>2. guest[m.to] # NoStream
    BY <2>1 DEF NoStream
  <2>3. /\ guest'[m.to].service = guest[m.to].service /\ guest'[m.to].replies = guest[m.to].replies
        /\ guest'[m.to].said = guest[m.to].said /\ guest'[m.to].fails = guest[m.to].fails
        /\ \A k \in Ids : k # m.to => guest'[k] = guest[k]
    BY <1>1, <1>4, <2>1, ReadySet
  <2> HIDE DEF m
  <2> QED
    BY <1>1, <1>4, <2>1, <2>2, <2>3
<1> QED
  BY <1>2, <1>3, <1>4

LEMMA AckTaken ==
    ASSUME TypeInv, GuestTakes, Head(toGuest).cmd = "OKAY"
    PROVE  /\ Settled' <=> Settled
           /\ \A m : Pending(m) /\ m.cmd # "OKAY" =>
                  /\ toGuest' # <<>> /\ toGuest'[Len(toGuest')] = m
                  /\ \A i \in 1..(Len(toGuest') - 1) : toGuest'[i].cmd = "OKAY"
<1>1. /\ Head(toGuest) = toGuest[1] /\ Len(toGuest) \in Nat \ {0}
      /\ Len(toGuest') = Len(toGuest) - 1 /\ toGuest' \in Seq(Messages)
      /\ \A i \in 1..Len(toGuest') : toGuest'[i] = toGuest[i + 1]
  BY Taken DEF GuestTakes
<1>2. Settled => Settled'
  <2> SUFFICES ASSUME Settled, NEW i \in 1..Len(toGuest') PROVE toGuest'[i].cmd = "OKAY"
    BY DEF Settled
  <2>1. i + 1 \in 1..Len(toGuest) /\ toGuest'[i] = toGuest[i + 1]
    BY <1>1
  <2> QED
    BY <2>1 DEF Settled
<1>3. Settled' => Settled
  <2> SUFFICES ASSUME Settled', NEW i \in 1..Len(toGuest) PROVE toGuest[i].cmd = "OKAY"
    BY DEF Settled
  <2>1. CASE i = 1
    BY <1>1, <2>1
  <2>2. CASE i > 1
    <3>1. i - 1 \in 1..Len(toGuest') /\ (i - 1) + 1 = i
      BY <1>1, <2>2
    <3>2. toGuest'[i - 1] = toGuest[(i - 1) + 1] /\ toGuest'[i - 1].cmd = "OKAY"
      BY <1>1, <3>1 DEF Settled
    <3> QED
      BY <3>1, <3>2
  <2> QED
    BY <1>1, <2>1, <2>2
<1>4. ASSUME NEW m, Pending(m), m.cmd # "OKAY"
      PROVE  /\ toGuest' # <<>> /\ toGuest'[Len(toGuest')] = m
             /\ \A i \in 1..(Len(toGuest') - 1) : toGuest'[i].cmd = "OKAY"
  <2>1. toGuest[Len(toGuest)] = m /\ \A i \in 1..(Len(toGuest) - 1) : toGuest[i].cmd = "OKAY"
    BY <1>4 DEF Pending
  <2>2. Len(toGuest) # 1
    BY <1>1, <1>4, <2>1
  <2>3. Len(toGuest') \in 1..Len(toGuest') /\ Len(toGuest') + 1 = Len(toGuest)
    BY <1>1, <2>2
  <2>4. toGuest'[Len(toGuest')] = m
    BY <1>1, <2>1, <2>3
  <2>5. toGuest' # <<>>
    BY <2>3
  <2>6. ASSUME NEW i \in 1..(Len(toGuest') - 1) PROVE toGuest'[i].cmd = "OKAY"
    <3>1. i \in 1..Len(toGuest') /\ i + 1 \in 1..(Len(toGuest) - 1)
      BY <1>1, <2>3
    <3> QED
      BY <1>1, <2>1, <3>1
  <2> QED
    BY <2>4, <2>5, <2>6
<1> QED
  BY <1>2, <1>3, <1>4

LEMMA AckClean ==
    ASSUME TypeInv, CleanInv, GuestTakes, Head(toGuest).cmd = "OKAY"
    PROVE  CleanInv'
<1> SUFFICES ASSUME clean PROVE Alone' /\ Flow'
  BY TakesAck DEF CleanInv, clientVars
<1>1. /\ UNCHANGED <<op, stage, request, remote, output, nextLocal, toHost>>
      /\ Local' = Local /\ Opening' = Opening /\ Asking' = Asking
      /\ \A k \in Ids :
             /\ guest'[k].service = guest[k].service /\ guest'[k].replies = guest[k].replies
             /\ guest'[k].said = guest[k].said /\ guest'[k].fails = guest[k].fails
             /\ guest[k] = NoStream => guest'[k] = NoStream
  BY TakesAck DEF clientVars, Local, Opening, Asking
<1>2. /\ Settled' <=> Settled
      /\ Pending(Opening) => Pending(Opening)'
      /\ Pending(Asking) => Pending(Asking)'
  <2>1. Pending(Opening) => Pending(Opening)'
    BY <1>1, AckTaken, Asked DEF Pending
  <2>2. Pending(Asking) => Pending(Asking)'
    BY <1>1, AckTaken, Asked DEF Pending
  <2> QED
    BY <2>1, <2>2, AckTaken
<1>3. Alone'
  BY <1>1, <1>2 DEF CleanInv, Alone, OpenAt
<1>4. ASSUME op # "none" PROVE Local \in Ids
  BY <1>4, Busy
<1>5. ASSUME op = "shell" PROVE NotOpen' \/ ShellStream'
  <2>1. Local \in Ids /\ (NotOpen \/ ShellStream)
    BY <1>4, <1>5 DEF CleanInv, Flow
  <2>2. CASE NotOpen
    BY <1>1, <1>2, <2>1, <2>2 DEF NotOpen
  <2>3. CASE ShellStream
    <3>1. Unread' = Unread /\ End' = End /\ First' = First /\ InOrder'
      BY <1>1, <2>1, <2>3 DEF Unread, End, First, ShellStream, InOrder
    <3>2. \A i : ShellMessage(i)' = ShellMessage(i)
      BY <1>1, <3>1 DEF ShellMessage, Text
    <3> QED
      BY <1>1, <1>2, <2>1, <2>3, <3>1, <3>2 DEF ShellStream
  <2> QED
    BY <2>1, <2>2, <2>3
<1>6. ASSUME stage = "opened" PROVE NotOpen' \/ SyncOpen'
  <2>1. Local \in Ids /\ (NotOpen \/ SyncOpen)
    BY <1>4, <1>6 DEF CleanInv, Flow, TypeInv, Sound
  <2> QED
    BY <1>1, <1>2, <2>1 DEF NotOpen, SyncOpen
<1>7. ASSUME stage \in {"ack", "reply"} PROVE Exchange'
  <2>1. Local \in Ids /\ Exchange
    BY <1>4, <1>7 DEF CleanInv, Flow, TypeInv, Sound
  <2> QED
    BY <1>1, <1>2, <2>1 DEF Exchange, InOrder
<1>8. ASSUME stage \in {"ack", "reply"}, op = "push" PROVE PushStream'
  <2>1. Local \in Ids /\ PushStream
    BY <1>4, <1>8 DEF CleanInv, Flow
  <2>2. OneAck'
    BY <1>1, <1>2, <2>1 DEF PushStream, OneAck
  <2> QED
    BY <1>1, <1>2, <2>1, <2>2 DEF PushStream
<1>9. ASSUME stage \in {"ack", "reply"}, op = "pull" PROVE PullStream'
  <2>1. Local \in Ids /\ PullStream
    BY <1>4, <1>9 DEF CleanInv, Flow
  <2>2. Unread' = Unread /\ Leading' = Leading
    BY <1>1, <2>1 DEF Unread, Leading
  <2>3. \A i : PullMessage(i)' <=> PullMessage(i)
    BY <1>1, <2>2 DEF PullMessage, Piece
  <2>4. Pulling => Pulling'
    BY <1>1, <2>1, <2>2, <2>3 DEF Pulling
  <2>5. NotPulling => NotPulling'
    BY <1>1, <2>1 DEF NotPulling
  <2> QED
    BY <1>1, <1>2, <2>1, <2>4, <2>5 DEF PullStream
<1>10. Flow'
  BY <1>1, <1>5, <1>6, <1>7, <1>8, <1>9 DEF Flow
<1> QED
  BY <1>3, <1>10

(* The guest takes the client's last message, the only other it can take. *)
LEMMA LastTaken ==
    ASSUME TypeInv, CleanInv, clean, GuestTakes, Head(toGuest).cmd # "OKAY"
    PROVE  /\ op # "none" /\ Local \in Ids /\ toGuest' = <<>> /\ Settled' /\ ~Settled
           /\ UNCHANGED <<op, stage, request, remote, output, nextLocal, clean>> /\ Local' = Local
           /\ Alone
           /\ \/ NotOpen /\ Pending(Opening) /\ toHost = <<>> /\ Head(toGuest) = Opening
                 /\ stage \in {"output", "opened"}
              \/ Exchange /\ Pending(Asking) /\ Head(toGuest) = Asking /\ stage = "ack"
                 /\ (op = "push" => PushStream) /\ (op = "pull" => PullStream)
<1>1. /\ Head(toGuest) = toGuest[1] /\ Len(toGuest) \in Nat \ {0} /\ 1 \in 1..Len(toGuest)
      /\ Len(toGuest') = Len(toGuest) - 1 /\ toGuest' \in Seq(Messages)
      /\ UNCHANGED <<op, stage, request, remote, output, nextLocal, clean>> /\ Local' = Local
  BY Taken DEF GuestTakes, clientVars, Local
<1>2. ~Settled /\ Alone /\ Flow /\ op # "none"
  BY <1>1 DEF Settled, CleanInv, Alone
<1>3. Local \in Ids
  BY <1>2, Busy
<1>4. /\ stage \in {"output", "opened", "ack", "reply"} /\ (stage = "output" <=> op = "shell")
  BY <1>2 DEF TypeInv, TypeOK, Sound
<1>5. \/ NotOpen /\ Pending(Opening) /\ toHost = <<>> /\ stage \in {"output", "opened"}
      \/ Exchange /\ Pending(Asking) /\ stage = "ack"
         /\ (op = "push" => PushStream) /\ (op = "pull" => PullStream)
  BY <1>2, <1>4 DEF Flow, NotOpen, ShellStream, SyncOpen, Exchange
<1>6. ASSUME NEW m, Pending(m) PROVE Len(toGuest) = 1 /\ Head(toGuest) = m
  <2>1. toGuest[Len(toGuest)] = m /\ \A i \in 1..(Len(toGuest) - 1) : toGuest[i].cmd = "OKAY"
    BY <1>6 DEF Pending
  <2>2. 1 \notin 1..(Len(toGuest) - 1)
    BY <1>1, <2>1
  <2>3. Len(toGuest) = 1
    BY <1>1, <2>2
  <2> QED
    BY <1>1, <2>1, <2>3
<1>7. Len(toGuest) = 1
  BY <1>5, <1>6
<1>8. toGuest' = <<>>
  BY <1>1, <1>7
<1>9. Settled'
  BY <1>8 DEF Settled
<1> QED
  BY <1>1, <1>2, <1>3, <1>5, <1>6, <1>8, <1>9

LEMMA OpeningClean ==
    ASSUME TypeInv, CleanInv, clean, GuestTakes, NotOpen, Pending(Opening), toHost = <<>>,
           Head(toGuest) = Opening, stage \in {"output", "opened"}
    PROVE  Alone' /\ Flow'
<1>1. /\ op # "none" /\ Local \in Ids /\ Settled' /\ Local' = Local
      /\ UNCHANGED <<op, stage, request, remote, output, nextLocal, clean>> /\ Alone
  BY LastTaken, Asked
<1>2. /\ remote = NoId /\ output = <<>> /\ guest[Local] = NoStream
      /\ stage = "output" <=> op = "shell"
  BY DEF NotOpen, TypeInv, Sound
<1> DEFINE what == IF op = "shell" THEN "shell" ELSE "sync"
<1>3. Opening.cmd = "OPEN" /\ Opening.from = Local /\ Opening.data = what
  BY DEF Opening, Message
<1>4. \/ Answer(<<Ack(Local, Local)>>) /\ Set(Local, "service", what)
      \/ Answer(<<Close(0, Local)>>) /\ UNCHANGED guest
  BY <1>3 DEF GuestTakes, GuestOpens, GuestReads
<1>5. CASE Answer(<<Close(0, Local)>>) /\ UNCHANGED guest
  <2>1. toHost' = <<Close(0, Local)>>
    BY <1>5 DEF Answer
  <2>2. NotOpen'
    BY <1>1, <1>2, <1>5, <2>1 DEF NotOpen
  <2>3. Alone'
    BY <1>1, <1>5 DEF Alone, OpenAt
  <2> QED
    BY <1>1, <1>2, <2>2, <2>3 DEF Flow
<1>6. CASE Answer(<<Ack(Local, Local)>>) /\ Set(Local, "service", what)
  <2>1. toHost' = <<Ack(Local, Local)>>
    BY <1>6 DEF Answer
  <2>2. /\ guest'[Local].service = what /\ guest'[Local].replies = <<>> /\ guest'[Local].said = 0
        /\ \A k \in Ids : k # Local => guest'[k] = guest[k]
    <3>1. what \in {"none", "shell", "sync", "closed"} /\ guest \in [Ids -> Streams]
      BY StreamsNow
    <3> HIDE DEF what
    <3>2. /\ guest'[Local].service = what /\ guest'[Local].replies = guest[Local].replies
          /\ guest'[Local].said = guest[Local].said
          /\ \A k \in Ids : k # Local => guest'[k] = guest[k]
      BY <1>1, <1>6, <3>1, ServiceSet
    <3> QED
      BY <1>2, <3>2 DEF NoStream
  <2>3. Alone'
    BY <1>1, <2>2 DEF Alone, OpenAt, Ids
  <2>4. CASE op = "shell"
    <3>1. First' = 1 /\ Unread' = 0 /\ End' = 0 /\ InOrder'
      <4>1. Len(output') = 0 /\ guest'[Local'].said = 0 /\ guest'[Local'].service = "shell"
        BY <1>1, <1>2, <2>2, <2>4
      <4>2. First' = 1
        BY <1>1, <1>2 DEF First
      <4> QED
        BY <4>1, <4>2 DEF Unread, End, InOrder
    <3>2. Len(toHost') = 1 /\ toHost'[1] = Ack(Local', Local')
      BY <1>1, <2>1
    <3>3. \A i \in 1..Len(toHost') : toHost'[i] = ShellMessage(i)'
      BY <1>1, <3>1, <3>2 DEF ShellMessage
    <3>4. ShellStream'
      BY <1>1, <1>2, <2>2, <2>4, <3>1, <3>2, <3>3 DEF ShellStream
    <3> QED
      BY <1>1, <1>2, <2>3, <2>4, <3>4 DEF Flow
  <2>5. CASE op # "shell"
    <3>1. SyncOpen'
      BY <1>1, <1>2, <2>1, <2>2, <2>5 DEF SyncOpen
    <3> QED
      BY <1>1, <1>2, <2>3, <2>5, <3>1 DEF Flow
  <2> QED
    BY <2>4, <2>5
<1> QED
  BY <1>4, <1>5, <1>6

LEMMA RequestClean ==
    ASSUME TypeInv, CleanInv, clean, GuestTakes, Exchange, Pending(Asking),
           Head(toGuest) = Asking, stage = "ack",
           op = "push" => PushStream, op = "pull" => PullStream
    PROVE  Alone' /\ Flow'
<1>1. /\ op # "none" /\ Local \in Ids /\ Settled' /\ ~Settled /\ Local' = Local
      /\ UNCHANGED <<op, stage, request, remote, output, nextLocal, clean>> /\ Alone
      /\ op \in SyncOps
  BY LastTaken, Asked DEF TypeInv, TypeOK, Sound, SyncOps
<1>2. /\ Asking.cmd = "WRTE" /\ Asking.from = Local /\ Asking.to = Local /\ Asking.data = request
      /\ OpenAt(Local)
  BY <1>1 DEF Asking, Message, OpenAt, Exchange
<1>3. request \in {"SEND", "DATA", "DONE", "RECV"} /\ request # "QUIT"
  BY <1>1 DEF PushStream, PullStream, SyncOps
<1>4. /\ Serve(Local, request)
      /\ Answer(<<Ack(Local, Local)>> \o IF request = "QUIT" THEN <<Close(Local, Local)>> ELSE <<>>)
  BY <1>2 DEF GuestTakes, GuestOpens, GuestReads
<1>5. Answer(<<Ack(Local, Local)>>)
  BY <1>3, <1>4 DEF Answer
<1>6. /\ Len(toHost') = Len(toHost) + 1 /\ Len(toHost) \in Nat
      /\ toHost'[Len(toHost) + 1] = Ack(Local, Local)
      /\ \A i \in 1..Len(toHost) : toHost'[i] = toHost[i]
      /\ toHost' \in Seq(Messages)
  <2>1. Ack(Local, Local) \in Messages /\ Ack(Local, Local).cmd # "WRTE"
    BY <1>1, Busy, MadeAcks
  <2> QED
    BY <1>5, <2>1, Answered
<1>7. /\ Ack(Local, Local).cmd = "OKAY" /\ Ack(Local, Local).from = Local
      /\ Ack(Local, Local).to = Local
  BY Fields
<1>8. /\ guest'[Local].service = "sync"
      /\ \A k \in Ids : k # Local => guest'[k] = guest[k]
  BY <1>1, <1>3, <1>4, StreamsNow, Served DEF Exchange
<1>9. Alone'
  BY <1>1, <1>8 DEF Alone, OpenAt, Ids
<1>10. Exchange'
  <2>1. \A i \in 1..Len(toHost') :
            /\ toHost'[i].to = Local /\ toHost'[i].from = Local
            /\ toHost'[i].cmd \in {"OKAY", "WRTE"}
    BY <1>6, <1>7 DEF Exchange
  <2> QED
    BY <1>1, <1>8, <2>1 DEF Exchange, InOrder
<1>11. ASSUME op = "push" PROVE PushStream'
  <2>1. PushStream /\ guest[Local].replies \in {<<>>, <<"FAIL">>} /\ Len(output) \in Nat
        /\ guest[Local].said \in Nat
    BY <1>1, <1>11, StreamsNow DEF PushStream, TypeInv, TypeOK, Streams
  <2>2. \A i \in 1..Len(toHost) : toHost[i].cmd # "OKAY"
    BY <1>1, <2>1 DEF PushStream, OneAck
  <2>3. OneAck'
    BY <1>1, <1>6, <2>2 DEF OneAck
  <2>4. \A i \in 1..Len(toHost') : toHost'[i].cmd = "WRTE" => toHost'[i].data = "FAIL"
    <3>1. \A i \in 1..Len(toHost) : toHost[i].cmd = "WRTE" => toHost[i].data = "FAIL"
      BY <1>1, <2>1 DEF PushStream
    <3> QED
      BY <1>6, <1>7, <3>1
  <2>5. guest'[Local].said = Len(output)
    <3>1. CASE request = "DATA"
      <4>1. guest[Local].said = Len(output) - 1 /\ Len(output) <= MaxChunks
        BY <1>1, <2>1, <3>1 DEF PushStream
      <4>2. guest'[Local].said = OneMore(guest[Local].said)
        BY <1>1, <1>4, <3>1, StreamsNow, Served
      <4> QED
        BY <2>1, <4>1, <4>2, BoundsAssumption DEF OneMore
    <3>2. CASE request = "SEND"
      <4>1. guest'[Local].said = 0 /\ output = <<>>
        BY <1>1, <1>4, <2>1, <3>2, StreamsNow, Served DEF PushStream
      <4> QED
        BY <4>1
    <3>3. CASE request = "DONE"
      <4>1. guest'[Local].said = guest[Local].said
        BY <1>1, <1>4, <3>3, StreamsNow, Served
      <4> QED
        BY <2>1, <3>3, <4>1 DEF PushStream
    <3> QED
      BY <2>1, <3>1, <3>2, <3>3 DEF PushStream
  <2>6. /\ guest'[Local].replies \in {<<>>, <<"FAIL">>, <<"OKAY">>}
        /\ guest'[Local].replies = <<"OKAY">> => request = "DONE" /\ ~guest'[Local].fails
    BY <1>1, <1>3, <1>4, <2>1, StreamsNow, Served, OneReply DEF PushStream
  <2> QED
    BY <1>1, <2>1, <2>3, <2>4, <2>5, <2>6 DEF PushStream
<1>12. ASSUME op = "pull" PROVE PullStream'
  <2>1. request = "RECV" /\ output = <<>> /\ NotPulling
    BY <1>1, <1>12 DEF PullStream
  <2>2. /\ guest'[Local].said = 0
        /\ guest'[Local].replies # <<>> /\ Len(guest'[Local].replies) - 1 <= MaxChunks
        /\ LastReply(guest'[Local].replies)
    BY <1>1, <1>4, <2>1, StreamsNow, Served DEF LastReply
  <2>3. Leading' = 1 /\ Unread' = 0
    <3>1. Len(output') = 0 /\ guest'[Local'].said = 0
      BY <1>1, <2>1, <2>2
    <3> QED
      BY <1>1, <3>1 DEF Leading, Unread
  <2>4. Len(toHost') = 1 /\ toHost'[1] = Ack(Local', Local')
    BY <1>1, <1>6, <2>1 DEF NotPulling
  <2>5. \A i \in 1..Len(toHost') : PullMessage(i)'
    BY <2>3, <2>4 DEF PullMessage
  <2>6. guest'[Local].said + Len(guest'[Local].replies) - 1 <= MaxChunks
    <3>1. Len(guest'[Local].replies) \in Nat
      <4>1. guest' \in [Ids -> Streams]
        BY <1>1, <1>4, StreamsNow, Served
      <4> QED
        BY <1>1, <4>1 DEF Streams
    <3> QED
      BY <2>2, <3>1
  <2>7. Pulling'
    BY <1>1, <2>2, <2>3, <2>4, <2>5, <2>6 DEF Pulling
  <2> QED
    BY <1>1, <2>1, <2>7 DEF PullStream
<1>13. Flow'
  BY <1>1, <1>10, <1>11, <1>12 DEF Flow, SyncOps
<1> QED
  BY <1>9, <1>13

LEMMA TakesClean == ASSUME TypeInv, CleanInv, GuestTakes PROVE CleanInv'
<1>1. CASE Head(toGuest).cmd = "OKAY"
  BY <1>1, AckClean
<1>2. CASE Head(toGuest).cmd # "OKAY" /\ clean
  <2>1. Alone' /\ Flow'
    BY <1>2, LastTaken, OpeningClean, RequestClean
  <2> QED
    BY <2>1 DEF CleanInv
<1>3. CASE ~clean
  BY <1>3 DEF CleanInv, GuestTakes, clientVars
<1> QED
  BY <1>1, <1>2, <1>3

(* What is not open does not write. *)
LEMMA OwnWrites ==
    ASSUME TypeInv, CleanInv, clean, NEW l \in Ids, guest[l].service \in {"shell", "sync"}
    PROVE  /\ l = Local /\ Local \in Ids /\ op # "none" /\ Alone
           /\ guest[l].service = "shell" => op = "shell" /\ ShellStream
           /\ guest[l].service = "sync" =>
                  \/ stage = "opened" /\ SyncOpen
                  \/ /\ stage \in {"ack", "reply"} /\ Exchange
                     /\ op = "push" => PushStream
                     /\ op = "pull" => PullStream
<1>1. Alone /\ Flow
  BY DEF CleanInv
<1>2. l = Local /\ op # "none"
  BY <1>1 DEF Alone, OpenAt
<1>3. ~NotOpen
  BY <1>2 DEF NotOpen, NoStream
<1>4. /\ stage \in {"output", "opened", "ack", "reply"} /\ (stage = "output" <=> op = "shell")
  BY <1>2 DEF TypeInv, TypeOK, Sound
<1>5. CASE op = "shell"
  BY <1>1, <1>2, <1>3, <1>5 DEF Flow, ShellStream
<1>6. CASE stage = "opened"
  BY <1>1, <1>2, <1>3, <1>4, <1>6 DEF Flow, SyncOpen
<1>7. CASE stage \in {"ack", "reply"}
  BY <1>1, <1>2, <1>4, <1>7 DEF Flow, Exchange
<1> QED
  BY <1>4, <1>5, <1>6, <1>7

(* A command's next text, or its end. *)
LEMMA ShellWritten ==
    ASSUME TypeInv, CleanInv, clean, ShellStream, op = "shell", Alone, Local \in Ids,
           UNCHANGED <<clientVars, toGuest>>, guest[Local].service = "shell",
           guest'[Local].replies = <<>>,
           \A k \in Ids : k # Local => guest'[k] = guest[k],
           \/ /\ guest'[Local].said = guest[Local].said + 1
              /\ guest'[Local].service = "shell"
              /\ Text(guest[Local].said + 1) \in Messages
              /\ Answer(<<Text(guest[Local].said + 1)>>)
           \/ /\ guest'[Local].said = guest[Local].said
              /\ guest'[Local].service = "closed"
              /\ Close(Local, Local) \in Messages
              /\ Answer(<<Close(Local, Local)>>)
    PROVE  CleanInv'
<1>1. /\ UNCHANGED <<op, stage, request, remote, output, nextLocal, clean>> /\ Local' = Local
      /\ First' = First /\ InOrder' /\ Settled'
      /\ Len(output) \in Nat /\ Unread \in Nat /\ First \in {0, 1}
      /\ guest[Local].said = Len(output) + Unread /\ guest[Local].said \in Nat
      /\ End = 0 /\ Len(toHost) = First + Unread
  <2>1. /\ UNCHANGED <<op, stage, request, remote, output, nextLocal, clean>> /\ Local' = Local
        /\ UNCHANGED toGuest
    BY DEF clientVars, Local
  <2>2. /\ Len(output) \in Nat /\ Unread \in Nat /\ First \in {0, 1}
        /\ guest[Local].said = Len(output) + Unread /\ guest[Local].said \in Nat
    BY ShellHead
  <2>3. End = 0
    BY DEF End
  <2>4. Len(toHost) = First + Unread
    BY <2>2, <2>3 DEF ShellStream
  <2>5. First' = First /\ InOrder' /\ Settled'
    BY <2>1 DEF First, InOrder, Settled, ShellStream
  <2> QED
    BY <2>1, <2>2, <2>3, <2>4, <2>5
<1>2. PICK m \in Messages :
          /\ Answer(<<m>>)
          /\ \/ /\ m = Text(guest[Local].said + 1) /\ guest'[Local].service = "shell"
                /\ guest'[Local].said = guest[Local].said + 1
             \/ /\ m = Close(Local, Local) /\ guest'[Local].service = "closed"
                /\ guest'[Local].said = guest[Local].said
  OBVIOUS
<1>3. m.cmd = "WRTE" => m.from \in Ids
  BY <1>2, Fields DEF Text
<1>4. /\ Len(toHost') = Len(toHost) + 1 /\ toHost'[Len(toHost) + 1] = m
      /\ \A i \in 1..Len(toHost) : toHost'[i] = toHost[i]
  BY <1>2, <1>3, Answered
<1>5. /\ Unread' \in Nat
      /\ \/ End' = 1 /\ Unread' = Unread /\ m = Close(Local, Local)
         \/ End' = 0 /\ Unread' = Unread + 1 /\ m = Text(guest[Local].said + 1)
  <2>1. Unread' = guest'[Local].said - Len(output)
    BY <1>1 DEF Unread
  <2>2. End' = IF guest'[Local].service = "closed" THEN 1 ELSE 0
    BY <1>1 DEF End
  <2>3. CASE m = Text(guest[Local].said + 1) /\ guest'[Local].service = "shell"
             /\ guest'[Local].said = guest[Local].said + 1
    <3>1. End' = 0
      BY <2>2, <2>3
    <3>2. Unread' = Unread + 1
      BY <1>1, <2>1, <2>3
    <3> QED
      BY <1>1, <2>3, <3>1, <3>2
  <2>4. CASE m = Close(Local, Local) /\ guest'[Local].service = "closed"
             /\ guest'[Local].said = guest[Local].said
    <3>1. End' = 1
      BY <2>2, <2>4
    <3>2. Unread' = Unread
      BY <1>1, <2>1, <2>4
    <3> QED
      BY <1>1, <2>4, <3>1, <3>2
  <2> QED
    BY <1>2, <2>3, <2>4
<1>6. PICK u \in Nat : u = Unread'
  BY <1>5
<1>7. PICK e \in {0, 1} : e = End'
  BY <1>5
<1>8. /\ First \in Nat /\ Unread \in Nat /\ u + e = Unread + 1
      /\ e = 1 => u = Unread /\ m = Close(Local, Local)
      /\ e = 0 => u = Unread + 1 /\ m = Text(guest[Local].said + 1)
  <2>1. CASE End' = 1 /\ Unread' = Unread /\ m = Close(Local, Local)
    <3>1. e = 1 /\ u = Unread /\ Unread \in Nat /\ First \in {0, 1}
      BY <1>1, <1>6, <1>7, <2>1
    <3>2. u + e = Unread + 1 /\ First \in Nat
      BY <3>1
    <3> QED
      BY <2>1, <3>1, <3>2
  <2>2. CASE End' = 0 /\ Unread' = Unread + 1 /\ m = Text(guest[Local].said + 1)
    <3>1. e = 0 /\ u = Unread + 1 /\ Unread \in Nat /\ First \in {0, 1}
      BY <1>1, <1>6, <1>7, <2>2
    <3>2. u + e = Unread + 1 /\ First \in Nat
      BY <3>1
    <3> QED
      BY <2>2, <3>1, <3>2
  <2> QED
    BY <1>5, <2>1, <2>2
<1>9. /\ Len(toHost) = First + Unread /\ Len(toHost') = First + Unread + 1
      /\ First \in Nat /\ Unread \in Nat /\ Len(output) \in Nat
      /\ guest[Local].said = Len(output) + Unread
  BY <1>1, <1>4, <1>8
<1>10. First' = First /\ Unread' = u /\ Local' = Local /\ output' = output
  BY <1>1, <1>6
<1>11. ASSUME NEW i \in 1..Len(toHost') PROVE toHost'[i] = ShellMessage(i)'
  <2>1. CASE i \in 1..Len(toHost)
    <3>1. toHost'[i] = ShellMessage(i)
      BY <1>4, <2>1 DEF ShellStream
    <3>2. i \in Nat /\ i <= First + Unread
      BY <1>9, <2>1
    <3>3. First + Unread <= First + u
      BY <1>8
    <3>4. i <= First + u
      BY <1>9, <3>2, <3>3
    <3> QED
      BY <1>10, <3>1, <3>2, <3>4 DEF ShellMessage, Text
  <2>2. CASE i = First + Unread + 1
    <3>1. toHost'[i] = m
      BY <1>4, <1>9, <2>2
    <3>2. ~(i <= First)
      BY <1>9, <2>2
    <3>3. CASE e = 1
      <4>1. u = Unread /\ m = Close(Local, Local)
        BY <1>8, <3>3
      <4>2. ~(i <= First + u)
        BY <1>9, <2>2, <4>1
      <4> QED
        BY <1>10, <3>1, <3>2, <4>1, <4>2 DEF ShellMessage
    <3>4. CASE e = 0
      <4>1. u = Unread + 1 /\ m = Text(guest[Local].said + 1)
        BY <1>8, <3>4
      <4>2. i <= First + u
        BY <1>9, <2>2, <4>1
      <4>3. Len(output) + i - First = guest[Local].said + 1
        BY <1>9, <2>2
      <4> QED
        BY <1>10, <3>1, <3>2, <4>1, <4>2, <4>3 DEF ShellMessage, Text
    <3> QED
      BY <3>3, <3>4
  <2> QED
    BY <1>9, <2>1, <2>2
<1>12. ShellStream'
  <2>1. Len(toHost') = First' + Unread' + End' /\ Unread' >= 0
    <3>1. Len(toHost') = First + u + e
      BY <1>8, <1>9
    <3> QED
      BY <1>1, <1>6, <1>7, <3>1
  <2>2. /\ remote' \in {NoId, Local'} /\ (remote' = NoId => output' = <<>>)
    BY <1>1 DEF ShellStream
  <2>3. guest'[Local'].service \in {"shell", "closed"} /\ guest'[Local'].replies = <<>>
    BY <1>1, <1>2
  <2> QED
    BY <1>1, <1>11, <2>1, <2>2, <2>3 DEF ShellStream
<1>13. Alone'
  BY <1>1 DEF Alone, OpenAt, Ids
<1>14. stage = "output"
  BY DEF TypeInv, Sound
<1> QED
  BY <1>1, <1>12, <1>13, <1>14 DEF CleanInv, Flow

LEMMA ShellWritesClean ==
    ASSUME TypeInv, CleanInv, NEW l \in Ids, GuestPrints(l) \/ GuestExits(l)
    PROVE  CleanInv'
<1> SUFFICES ASSUME clean PROVE CleanInv'
  BY DEF GuestPrints, GuestExits, clientVars, CleanInv
<1>1. guest[l].service = "shell"
  BY DEF GuestPrints, GuestExits
<1>2. l = Local /\ op = "shell" /\ ShellStream /\ Alone /\ guest[l].replies = <<>>
  BY <1>1, OwnWrites DEF ShellStream
<1>3. CASE GuestPrints(l)
  BY <1>1, <1>2, <1>3, Printed, ShellWritten DEF Text
<1>4. CASE GuestExits(l)
  BY <1>1, <1>2, <1>4, Exited, ShellWritten
<1> QED
  BY <1>3, <1>4

(* The guest's reply to a push, and to a pull. *)
LEMMA PushReplied ==
    ASSUME TypeInv, CleanInv, clean, NEW l \in Ids, GuestReplies(l), op = "push",
           stage \in {"ack", "reply"}, Exchange, PushStream, l = Local, Alone
    PROVE  Alone' /\ Flow'
<1> DEFINE data == Head(guest[l].replies)
           n == IF data = "DATA" THEN OneMore(guest[l].said) ELSE 0
           m == Message("WRTE", l, l, data, n)
<1>1. guest[l].replies \in {<<"FAIL">>, <<"OKAY">>}
  BY DEF GuestReplies, PushStream
<1>2. /\ data \in {"FAIL", "OKAY"} /\ Tail(guest[l].replies) = <<>>
      /\ data = "OKAY" => guest[l].replies = <<"OKAY">>
  <2>1. ASSUME NEW x PROVE Head(<<x>>) = x /\ Tail(<<x>>) = <<>>
    OBVIOUS
  <2>2. CASE guest[l].replies = <<"FAIL">>
    BY <2>1, <2>2
  <2>3. CASE guest[l].replies = <<"OKAY">>
    BY <2>1, <2>3
  <2> QED
    BY <1>1, <2>2, <2>3
<1>3. /\ guest'[l].service = "sync" /\ guest'[l].replies = <<>> /\ guest'[l].said = guest[l].said
      /\ guest'[l].fails = guest[l].fails
      /\ \A k \in Ids : k # l => guest'[k] = guest[k]
      /\ m \in Messages /\ Answer(<<m>>) /\ UNCHANGED <<clientVars, toGuest>>
  BY <1>2, Replied
<1>4. m.cmd = "WRTE" /\ m.from = l /\ m.to = l /\ m.data = data
  BY Fields
<1> HIDE DEF m, data
<1>5. /\ Len(toHost') = Len(toHost) + 1 /\ Len(toHost) \in Nat /\ toHost'[Len(toHost) + 1] = m
      /\ \A i \in 1..Len(toHost) : toHost'[i] = toHost[i]
  BY <1>3, <1>4, Answered
<1>6. /\ UNCHANGED <<op, stage, request, remote, output, nextLocal, clean, toGuest>> /\ Local' = Local
      /\ Asking' = Asking
  BY <1>3 DEF clientVars, Local, Asking
<1>7. (Settled' <=> Settled) /\ (Pending(Asking)' <=> Pending(Asking)) /\ InOrder'
  BY <1>6 DEF Settled, Pending, InOrder, Exchange
<1>8. data = "OKAY" => request = "DONE" /\ Settled /\ ~guest[l].fails
  BY <1>2 DEF PushStream
<1>9. Exchange'
  <2>1. \A i \in 1..Len(toHost') :
            /\ toHost'[i].to = Local /\ toHost'[i].from = Local
            /\ toHost'[i].cmd \in {"OKAY", "WRTE"}
    BY <1>4, <1>5 DEF Exchange
  <2> QED
    BY <1>3, <1>6, <1>7, <2>1 DEF Exchange
<1>10. PushStream'
  <2>1. OneAck'
    <3>1. ASSUME NEW i \in 1..Len(toHost'), toHost'[i].cmd = "OKAY"
          PROVE  i \in 1..Len(toHost) /\ toHost[i].cmd = "OKAY"
      BY <1>4, <1>5, <3>1
    <3> QED
      BY <1>6, <1>7, <3>1 DEF PushStream, OneAck
  <2>2. \A i \in 1..Len(toHost') : toHost'[i].cmd = "WRTE" =>
            /\ toHost'[i].data \in {"OKAY", "FAIL"}
            /\ toHost'[i].data = "OKAY" => request = "DONE" /\ Settled /\ ~guest[l].fails
    <3> SUFFICES ASSUME NEW i \in 1..Len(toHost'), toHost'[i].cmd = "WRTE"
                 PROVE  /\ toHost'[i].data \in {"OKAY", "FAIL"}
                        /\ toHost'[i].data = "OKAY" => request = "DONE" /\ Settled /\ ~guest[l].fails
      OBVIOUS
    <3>1. CASE i \in 1..Len(toHost)
      BY <1>5, <3>1 DEF PushStream
    <3>2. CASE i = Len(toHost) + 1
      BY <1>2, <1>4, <1>5, <1>8, <3>2
    <3> QED
      BY <1>5, <3>1, <3>2
  <2>3. /\ guest'[Local'].said = guest[Local].said /\ guest'[Local'].replies = <<>>
        /\ guest'[Local'].fails = guest[Local].fails
    BY <1>3, <1>6
  <2> QED
    BY <1>6, <1>7, <2>1, <2>2, <2>3, OneReply DEF PushStream
<1>11. Alone'
  BY <1>3, <1>6 DEF Alone, OpenAt, Ids
<1> QED
  BY <1>6, <1>9, <1>10, <1>11 DEF Flow

LEMMA PullReplied ==
    ASSUME TypeInv, CleanInv, clean, NEW l \in Ids, GuestReplies(l), op = "pull",
           stage \in {"ack", "reply"}, Exchange, PullStream, l = Local, Alone
    PROVE  Alone' /\ Flow'
<1> DEFINE data == Head(guest[l].replies)
           n == IF data = "DATA" THEN OneMore(guest[l].said) ELSE 0
           m == Message("WRTE", l, l, data, n)
<1>1. /\ guest[l].replies \in Seq(Chunks) /\ guest[l].replies # <<>>
      /\ guest[l].said \in Nat /\ guest[l].said <= MaxChunks
      /\ output \in Seq(Ids \X (0..MaxChunks)) /\ Len(output) \in Nat /\ MaxChunks \in Nat
  BY StreamsNow, BoundsAssumption DEF GuestReplies, TypeInv, TypeOK, Streams
<1>2. Settled /\ Pulling
  BY <1>1 DEF PullStream, NotPulling
<1>3. /\ guest'[l].service = "sync" /\ guest'[l].replies = Tail(guest[l].replies)
      /\ guest'[l].said = (IF data = "DATA" THEN n ELSE guest[l].said)
      /\ \A k \in Ids : k # l => guest'[k] = guest[k]
      /\ m \in Messages /\ Answer(<<m>>) /\ UNCHANGED <<clientVars, toGuest>>
  BY Replied
<1>4. m.cmd = "WRTE" /\ m.from = l /\ m.to = l /\ m.data = data /\ m = Message("WRTE", l, l, data, n)
  BY Fields
<1> DEFINE r == guest[l].replies
<1>5. /\ data = r[1] /\ Len(r) \in Nat \ {0} /\ Len(Tail(r)) = Len(r) - 1
      /\ \A i \in 1..(Len(r) - 1) : Tail(r)[i] = r[i + 1]
      /\ Tail(r) \in Seq(Chunks)
  BY <1>1, TakeOne
<1>6. /\ \A i \in 1..Len(r) : IF i < Len(r) THEN r[i] = "DATA" ELSE r[i] \in {"DONE", "FAIL"}
      /\ guest[l].said + Len(r) - 1 <= MaxChunks
  BY <1>1, <1>2 DEF Pulling, LastReply
<1> HIDE DEF m, data, n, r
<1>7. /\ Len(toHost') = Len(toHost) + 1 /\ Len(toHost) \in Nat /\ toHost'[Len(toHost) + 1] = m
      /\ \A i \in 1..Len(toHost) : toHost'[i] = toHost[i]
  BY <1>3, <1>4, Answered
<1>8. /\ UNCHANGED <<op, stage, request, remote, output, nextLocal, clean, toGuest>> /\ Local' = Local
      /\ Settled' /\ InOrder' /\ Leading' = Leading
  BY <1>2, <1>3 DEF clientVars, Local, Settled, InOrder, Exchange, Leading
<1>9. /\ Unread \in Nat /\ Leading \in {0, 1} /\ guest[l].said = Len(output) + Unread
      /\ Len(toHost) = Leading + Unread
  <2>1. Unread >= 0 /\ Len(toHost) = Leading + Unread
    BY <1>1, <1>2 DEF Pulling
  <2> QED
    BY <1>1, <2>1 DEF Unread, Leading
<1>10. LastReply(Tail(r))
  <2> SUFFICES ASSUME NEW i \in 1..Len(Tail(r))
               PROVE  IF i < Len(Tail(r)) THEN Tail(r)[i] = "DATA" ELSE Tail(r)[i] \in {"DONE", "FAIL"}
    BY DEF LastReply
  <2>1. i + 1 \in 1..Len(r) /\ Tail(r)[i] = r[i + 1] /\ (i < Len(Tail(r)) <=> i + 1 < Len(r))
    BY <1>5
  <2> QED
    BY <1>6, <2>1
<1>11. PICK said \in Nat : said = guest'[l].said
  <2>1. guest' \in [Ids -> Streams]
    BY Replied
  <2>2. guest'[l].said \in 0..MaxChunks
    BY <2>1 DEF Streams
  <2> QED
    BY <2>2
<1>12. PICK u \in Nat :
          /\ u = Unread'
          /\ \/ /\ data = "DATA" /\ m = Piece(guest[l].said + 1)
                /\ said = guest[l].said + 1 /\ u = Unread + 1
             \/ /\ data \in {"DONE", "FAIL"} /\ Tail(r) = <<>>
                /\ said = guest[l].said /\ u = Unread
          /\ Tail(r) # <<>> => said + Len(Tail(r)) - 1 <= MaxChunks
  <2>1. Unread' = said - Len(output)
    BY <1>8, <1>11 DEF Unread
  <2>2. CASE Len(r) = 1
    <3>1. data \in {"DONE", "FAIL"}
      BY <1>5, <1>6, <2>2
    <3>2. Tail(r) = <<>>
      <4>1. Len(Tail(r)) = 0 /\ Tail(r) \in Seq(Chunks)
        BY <1>5, <2>2
      <4>2. ASSUME NEW t \in Seq(Chunks), Len(t) = 0 PROVE t = <<>>
        BY <4>2
      <4> QED
        BY <4>1, <4>2
    <3>3. said = guest[l].said
      BY <1>3, <1>11, <3>1
    <3>4. Unread' = Unread
      BY <1>1, <1>9, <2>1, <3>3
    <3> QED
      BY <1>9, <3>1, <3>2, <3>3, <3>4
  <2>3. CASE Len(r) > 1
    <3>1. data = "DATA"
      BY <1>5, <1>6, <2>3
    <3>2. guest[l].said + 1 <= MaxChunks
      BY <1>1, <1>5, <1>6, <2>3
    <3>3. n = guest[l].said + 1
      BY <1>1, <3>1, <3>2 DEF n, OneMore
    <3>4. said = guest[l].said + 1 /\ m = Piece(guest[l].said + 1)
      BY <1>3, <1>4, <1>11, <3>1, <3>3 DEF Piece
    <3>5. Unread' = Unread + 1
      BY <1>1, <1>9, <2>1, <3>4
    <3>6. said + Len(Tail(r)) - 1 <= MaxChunks
      BY <1>1, <1>5, <1>6, <3>4
    <3>7. Unread + 1 \in Nat
      BY <1>9
    <3> QED
      BY <3>1, <3>4, <3>5, <3>6, <3>7
  <2> QED
    BY <1>5, <2>2, <2>3
<1>13. u = Unread \/ u = Unread + 1
  BY <1>12
<1>14. ASSUME NEW i \in 1..Len(toHost') PROVE PullMessage(i)'
  <2>1. CASE i \in 1..Len(toHost)
    <3>1. toHost'[i] = toHost[i] /\ PullMessage(i)
      BY <1>2, <1>7, <2>1 DEF Pulling
    <3>2. i \in Nat /\ i <= Leading + Unread
      BY <1>9, <2>1
    <3>3. i <= Leading + u
      BY <1>9, <1>13, <3>2
    <3> QED
      BY <1>8, <1>12, <3>1, <3>2, <3>3 DEF PullMessage, Piece
  <2>2. CASE i = Len(toHost) + 1
    <3>1. toHost'[i] = m /\ i = Leading + Unread + 1 /\ ~(i <= Leading)
      BY <1>7, <1>9, <2>2
    <3>2. CASE u = Unread + 1
      <4>1. m = Piece(guest[l].said + 1)
        BY <1>9, <1>12, <3>2
      <4>2. i <= Leading + u /\ Len(output) + i - Leading = guest[l].said + 1
        BY <1>1, <1>9, <3>1, <3>2
      <4> QED
        BY <1>8, <1>12, <3>1, <4>1, <4>2 DEF PullMessage, Piece
    <3>3. CASE u = Unread
      <4>1. data \in {"DONE", "FAIL"}
        BY <1>9, <1>12, <3>3
      <4>2. ~(i <= Leading + u)
        BY <1>9, <3>1, <3>3
      <4> QED
        BY <1>4, <1>8, <1>12, <3>1, <4>1, <4>2 DEF PullMessage
    <3> QED
      BY <1>13, <3>2, <3>3
  <2> QED
    BY <1>7, <2>1, <2>2
<1>15. Pulling'
  <2>1. \/ Len(toHost') = Leading' + Unread'
        \/ Len(toHost') = Leading' + Unread' + 1 /\ guest'[Local'].replies = <<>>
    <3>1. Leading' = Leading /\ Unread' = u
      BY <1>8, <1>12
    <3>2. Len(toHost') = Leading + Unread + 1
      BY <1>7, <1>9
    <3>3. CASE u = Unread + 1
      <4>1. Len(toHost') = Leading + u
        BY <1>9, <3>2, <3>3
      <4> QED
        BY <3>1, <4>1
    <3>4. CASE u = Unread
      <4>1. Tail(r) = <<>>
        BY <1>9, <1>12, <3>4
      <4> QED
        BY <1>3, <1>8, <3>1, <3>2, <3>4, <4>1 DEF r
    <3> QED
      BY <1>13, <3>3, <3>4
  <2>2. LastReply(guest'[Local'].replies)
    BY <1>3, <1>8, <1>10 DEF r
  <2>3. guest'[Local'].replies # <<>> =>
            guest'[Local'].said + Len(guest'[Local'].replies) - 1 <= MaxChunks
    BY <1>3, <1>8, <1>12, <1>11 DEF r
  <2>4. Unread' >= 0
    BY <1>12
  <2> QED
    BY <1>14, <2>1, <2>2, <2>3, <2>4 DEF Pulling
<1>16. PullStream'
  BY <1>8, <1>15 DEF PullStream
<1>17. Exchange'
  <2>1. \A i \in 1..Len(toHost') :
            /\ toHost'[i].to = Local /\ toHost'[i].from = Local
            /\ toHost'[i].cmd \in {"OKAY", "WRTE"}
    BY <1>4, <1>7 DEF Exchange
  <2>2. remote = Local /\ (stage = "reply" => request \in {"DONE", "RECV"})
    BY DEF Exchange
  <2> QED
    BY <1>3, <1>8, <2>1, <2>2 DEF Exchange
<1>18. Alone'
  BY <1>3, <1>8 DEF Alone, OpenAt, Ids
<1> QED
  BY <1>8, <1>16, <1>17, <1>18 DEF Flow

LEMMA RepliesClean == ASSUME TypeInv, CleanInv, NEW l \in Ids, GuestReplies(l) PROVE CleanInv'
<1> SUFFICES ASSUME clean PROVE Alone' /\ Flow'
  BY DEF GuestReplies, clientVars, CleanInv
<1>1. guest[l].service = "sync" /\ guest[l].replies # <<>>
  BY DEF GuestReplies
<1>2. ~SyncOpen \/ l # Local
  BY <1>1 DEF SyncOpen
<1>3. /\ l = Local /\ op # "none" /\ Alone /\ stage \in {"ack", "reply"} /\ Exchange
      /\ op = "push" => PushStream
      /\ op = "pull" => PullStream
  BY <1>1, <1>2, OwnWrites
<1>4. op \in SyncOps
  BY <1>3 DEF TypeInv, TypeOK, Sound
<1> QED
  BY <1>3, <1>4, PushReplied, PullReplied DEF SyncOps

(* A success, and what its leavings can do to it. *)
LEMMA FrozenKept ==
    ASSUME TypeInv, Frozen, SuccessIsTrue, UNCHANGED <<op, output, nextLocal, result>>,
           op = "none" /\ result.ok /\ result.clean =>
               /\ guest'[Local].service # "shell" /\ guest'[Local].replies = <<>>
               /\ guest'[Local].said = guest[Local].said /\ guest'[Local].fails = guest[Local].fails
               /\ toGuest' = toGuest \/ (toGuest # <<>> /\ toGuest' = Tail(toGuest))
    PROVE  Frozen' /\ SuccessIsTrue'
<1> SUFFICES ASSUME op = "none", result.ok, result.clean PROVE Frozen' /\ SuccessIsTrue'
  BY DEF Frozen, SuccessIsTrue
<1>1. UNCHANGED <<op, result, output>> /\ Local' = Local /\ Local \in Ids
  BY DEF Local, Frozen
<1>2. ASSUME NEW i \in 1..Len(toGuest')
      PROVE  toGuest'[i].cmd # "OPEN" /\ (toGuest'[i].cmd = "WRTE" => toGuest'[i].data = "QUIT")
  <2>1. CASE toGuest' = toGuest
    BY <2>1 DEF Frozen
  <2>2. CASE toGuest # <<>> /\ toGuest' = Tail(toGuest)
    <3>1. /\ Len(toGuest) \in Nat \ {0} /\ Len(toGuest') = Len(toGuest) - 1
          /\ \A j \in 1..Len(toGuest') : toGuest'[j] = toGuest[j + 1]
      BY <2>2, Taken
    <3>2. i + 1 \in 1..Len(toGuest) /\ toGuest'[i] = toGuest[i + 1]
      BY <3>1
    <3> QED
      BY <3>2 DEF Frozen
  <2> QED
    BY <2>1, <2>2
<1>3. Own(Local)' = Own(Local)
  BY <1>1 DEF Own
<1> QED
  BY <1>1, <1>2, <1>3 DEF Frozen, SuccessIsTrue

LEMMA TakesKept ==
    ASSUME TypeInv, Frozen, SuccessIsTrue, GuestTakes PROVE Frozen' /\ SuccessIsTrue'
<1> SUFFICES ASSUME op = "none", result.ok, result.clean
             PROVE  /\ guest'[Local].service # "shell" /\ guest'[Local].replies = <<>>
                    /\ guest'[Local].said = guest[Local].said
                    /\ guest'[Local].fails = guest[Local].fails
  BY FrozenKept DEF GuestTakes, clientVars
<1> DEFINE m == Head(toGuest)
<1>1. /\ m.cmd # "OPEN" /\ (m.cmd = "WRTE" => m.data = "QUIT")
  BY Taken DEF GuestTakes, Frozen
<1>2. /\ Local \in Ids /\ guest \in [Ids -> Streams]
      /\ guest[Local].service # "shell" /\ guest[Local].replies = <<>>
  BY StreamsNow DEF Frozen
<1>3. \/ UNCHANGED guest
      \/ m.to \in Ids /\ (Set(m.to, "ready", TRUE) \/ Set(m.to, "service", "closed"))
  BY <1>1 DEF GuestTakes, GuestOpens, GuestReads, OpenAt, Serve
<1>4. CASE UNCHANGED guest
  BY <1>2, <1>4
<1>5. CASE m.to \in Ids /\ Set(m.to, "ready", TRUE)
  BY <1>2, <1>5, ReadySet
<1>6. CASE m.to \in Ids /\ Set(m.to, "service", "closed")
  BY <1>2, <1>6, ServiceSet
<1> QED
  BY <1>3, <1>4, <1>5, <1>6

LEMMA WritesKept ==
    ASSUME TypeInv, Frozen, SuccessIsTrue, NEW l \in Ids,
           GuestPrints(l) \/ GuestExits(l) \/ GuestReplies(l) \/ GuestPacks(l)
    PROVE  Frozen' /\ SuccessIsTrue'
<1> SUFFICES ASSUME op = "none", result.ok, result.clean
             PROVE  /\ guest'[Local].service # "shell" /\ guest'[Local].replies = <<>>
                    /\ guest'[Local].said = guest[Local].said
                    /\ guest'[Local].fails = guest[Local].fails
  BY FrozenKept DEF GuestPrints, GuestExits, GuestReplies, GuestPacks, clientVars
<1>1. /\ Local \in Ids /\ guest[Local].service # "shell" /\ guest[Local].replies = <<>>
  BY DEF Frozen
<1>2. l # Local
  BY <1>1 DEF GuestPrints, GuestExits, GuestReplies, GuestPacks
<1>3. guest'[Local] = guest[Local]
  BY <1>1, <1>2, Printed, Exited, Replied, Packed
<1> QED
  BY <1>1, <1>3

LEMMA InitSound == Init => IInv
<1> SUFFICES ASSUME Init PROVE IInv
  OBVIOUS
<1>1. Alone
  BY DEF Init, Alone, Settled, OpenAt, NoStream
<1>2. Flow
  BY DEF Init, Flow
<1>3. Frozen /\ SuccessIsTrue
  BY DEF Init, Frozen, SuccessIsTrue
<1> QED
  BY <1>1, <1>2, <1>3, InitTyped DEF IInv, CleanInv

(* An operation that goes on has no result yet. *)
LEMMA GoesOn == ASSUME op' # "none" PROVE Frozen' /\ SuccessIsTrue'
  BY DEF Frozen, SuccessIsTrue

LEMMA Stays ==
    ASSUME CleanInv, Frozen, SuccessIsTrue, UNCHANGED <<clientVars, toGuest, toHost, guest>>
    PROVE  CleanInv' /\ Frozen' /\ SuccessIsTrue'
<1>1. /\ UNCHANGED <<op, stage, request, remote, output, nextLocal, result, clean, toGuest, toHost, guest>>
  BY DEF clientVars
<1>2. Local' = Local
  BY <1>1 DEF Local
<1>3. Frozen' /\ SuccessIsTrue'
  BY <1>1, <1>2 DEF Frozen, SuccessIsTrue, Own
<1>4. (Alone' <=> Alone) /\ Settled' = Settled
  BY <1>1, <1>2 DEF Alone, OpenAt, Settled
<1>5. Flow => Flow'
  BY <1>1, <1>2 DEF Flow, NotOpen, Pending, Settled, Opening, Asking, ShellStream, InOrder, First,
     Unread, Text, End, ShellMessage, SyncOpen, Exchange, OneAck, PushStream, Leading, Piece,
     PullMessage, LastReply, Pulling, NotPulling, PullStream
<1> QED
  BY <1>1, <1>3, <1>4, <1>5 DEF CleanInv

LEMMA ClientKept ==
    ASSUME IInv, Ends \/ ShellTimesOut \/ OpenTimesOut \/ Cancel \/ Connect \/ OpenShell
                 \/ \E o \in SyncOps : OpenSync(o)
    PROVE  CleanInv' /\ Frozen' /\ SuccessIsTrue'
<1> USE DEF IInv
<1>1. CASE OpenShell
  BY <1>1, OpenClean, GoesOn DEF OpenShell, Open
<1>2. ASSUME NEW o \in SyncOps, OpenSync(o) PROVE CleanInv' /\ Frozen' /\ SuccessIsTrue'
  BY <1>2, OpenClean, GoesOn DEF OpenSync, Open, SyncOps
<1>3. CASE ShellTimesOut \/ OpenTimesOut \/ Cancel \/ Unexpected \/ ReadFails
  <2>1. op # "none"
    BY <1>3 DEF TypeInv, TypeOK, Sound, ShellTimesOut, OpenTimesOut, Cancel, Unexpected, ReadFails
  <2> QED
    BY <1>3, <2>1, BadlyEnded
<1>4. CASE ShellOkay \/ ShellData
  <2>1. op' # "none"
    BY <1>4 DEF ShellOkay, ShellData, TypeInv, Sound
  <2> QED
    BY <1>4, <2>1, GoesOn, ShellOkayClean, ShellDataClean
<1>5. CASE ShellEnds
  <2>1. CASE clean
    BY <1>5, <2>1, ShellEndsClean
  <2>2. CASE ~clean
    <3>1. clean' = FALSE /\ result'.clean = FALSE
      BY <1>5, <2>2 DEF ShellEnds, Return, TypeInv, TypeOK
    <3> QED
      BY <3>1 DEF CleanInv, Frozen, SuccessIsTrue
  <2> QED
    BY <2>1, <2>2
<1>6. CASE SyncOpened
  <2>1. op' # "none"
    BY <1>6 DEF SyncOpened, Request, TypeInv, Sound
  <2> QED
    BY <1>6, <2>1, GoesOn, SyncOpenedClean
<1>7. CASE Acked
  <2>1. op' = op \/ result'.ok = FALSE
    <3>1. \/ \E r \in NextRequests : Request(remote, r)
          \/ UNCHANGED op
          \/ Fails
      BY <1>7 DEF Acked
    <3>2. Fails => result'.ok = FALSE
      BY DEF Fails, Return
    <3>3. ASSUME NEW r, Request(remote, r) PROVE op' = op
      BY <3>3 DEF Request
    <3> QED
      BY <3>1, <3>2, <3>3
  <2>2. op # "none"
    BY <1>7 DEF Acked, TypeInv, Sound
  <2> QED
    BY <1>7, <2>1, <2>2, AckedClean DEF Frozen, SuccessIsTrue
<1>8. CASE Reply
  BY <1>8, ReplyClean
<1>9. CASE Connect
  BY <1>9, ConnectClean
<1> QED
  BY <1>1, <1>2, <1>3, <1>4, <1>5, <1>6, <1>7, <1>8, <1>9 DEF Ends, Shell, Sync

LEMMA NextSound == IInv /\ [Next]_vars => IInv'
<1> SUFFICES ASSUME IInv, [Next]_vars PROVE CleanInv' /\ Frozen' /\ SuccessIsTrue'
  BY NextTyped DEF IInv
<1>1. CASE Ends \/ ShellTimesOut \/ OpenTimesOut \/ Cancel \/ Connect \/ OpenShell
           \/ \E o \in SyncOps : OpenSync(o)
  BY <1>1, ClientKept
<1>2. CASE GuestTakes
  BY <1>2, TakesClean, TakesKept DEF IInv
<1>3. ASSUME NEW l \in Ids,
             GuestPrints(l) \/ GuestExits(l) \/ GuestReplies(l) \/ GuestPacks(l)
      PROVE  CleanInv' /\ Frozen' /\ SuccessIsTrue'
  <2>1. GuestPacks(l) => CleanInv'
    BY Packed DEF CleanInv, IInv
  <2> QED
    BY <1>3, <2>1, ShellWritesClean, RepliesClean, WritesKept DEF IInv
<1>4. CASE GuestDies \/ UNCHANGED vars
  BY <1>4, Stays DEF GuestDies, vars, channelVars, IInv
<1> QED
  BY <1>1, <1>2, <1>3, <1>4 DEF Next, Guest

LEMMA LeavesNothing == IInv => NothingLeftOver
<1> SUFFICES ASSUME IInv, clean
             PROVE  /\ op = "none" => toHost = <<>>
                    /\ \A i \in 1..Len(toHost) : toHost[i].to = Local
  BY DEF NothingLeftOver
<1>1. Alone /\ Flow /\ TypeInv
  BY DEF IInv, CleanInv
<1>2. CASE op = "none"
  BY <1>1, <1>2 DEF Alone
<1>3. CASE op # "none"
  <2>1. \/ NotOpen \/ ShellStream \/ SyncOpen \/ Exchange
    BY <1>1, <1>3 DEF Flow, TypeInv, TypeOK, Sound
  <2>2. CASE NotOpen
    <3>1. toHost = <<>> \/ toHost = <<Close(0, Local)>>
      BY <2>2 DEF NotOpen
    <3>2. Close(0, Local).to = Local
      BY DEF Close, Message
    <3>3. ASSUME NEW x PROVE Len(<<x>>) = 1 /\ <<x>>[1] = x
      OBVIOUS
    <3> QED
      BY <1>3, <3>1, <3>2, <3>3
  <2>3. CASE ShellStream
    <3>1. ASSUME NEW i \in 1..Len(toHost) PROVE toHost[i].to = Local
      <4>1. toHost[i] = ShellMessage(i)
        BY <2>3 DEF ShellStream
      <4>2. ShellMessage(i) \in {Ack(Local, Local), Text(Len(output) + i - First), Close(Local, Local)}
        BY DEF ShellMessage
      <4>3. /\ Ack(Local, Local).to = Local /\ Close(Local, Local).to = Local
            /\ Text(Len(output) + i - First).to = Local
        BY DEF Ack, Text, Close, Message
      <4> QED
        BY <4>1, <4>2, <4>3
    <3> QED
      BY <1>3, <3>1
  <2>4. CASE SyncOpen
    <3>1. toHost = <<Ack(Local, Local)>>
      BY <2>4 DEF SyncOpen
    <3>2. Ack(Local, Local).to = Local
      BY DEF Ack, Message
    <3>3. ASSUME NEW x PROVE Len(<<x>>) = 1 /\ <<x>>[1] = x
      OBVIOUS
    <3> QED
      BY <1>3, <3>1, <3>2, <3>3
  <2>5. CASE Exchange
    BY <1>3, <2>5 DEF Exchange
  <2> QED
    BY <2>1, <2>2, <2>3, <2>4, <2>5
<1> QED
  BY <1>2, <1>3

(* Whatever is opened, transferred, dropped or lost, of one operation after *)
(* the other, every step of client and guest keeps the inductive invariant: *)
(* on a clean connection only the operation's stream is open, and what is   *)
(* in flight each way is what that operation's code is about to read.       *)
THEOREM AdbStreamsInductive == Spec => []IInv
<1>1. Init => IInv
  BY InitSound
<1>2. IInv /\ [Next]_vars => IInv'
  BY NextSound
<1> QED
  BY <1>1, <1>2, PTL DEF Spec

(* Every variable keeps the type that the code's fields have. *)
THEOREM AdbStreamsTypeCorrect == Spec => []TypeOK
<1>1. IInv => TypeOK
  BY DEF IInv, TypeInv
<1> QED
  BY <1>1, AdbStreamsInductive, PTL

(* shell_exec, push_file and pull_file read whatever message comes next,   *)
(* whichever stream it names; even so, one that returns Ok on a clean      *)
(* connection has moved its own stream's data, all of it and in order, and *)
(* a push the guest did not refuse.  The connection of a pull stays clean  *)
(* only while adbd writes each sync message whole in a WRTE of its own.    *)
THEOREM SuccessIsCorrect == Spec => []SuccessIsTrue
<1>1. IInv => SuccessIsTrue
  BY DEF IInv
<1> QED
  BY <1>1, AdbStreamsInductive, PTL

(* Between operations of a clean connection the transport holds nothing    *)
(* the guest sent, and during one only messages for its stream.            *)
THEOREM NothingIsLeftOver == Spec => []NothingLeftOver
<1>1. IInv => NothingLeftOver
  BY LeavesNothing
<1> QED
  BY <1>1, AdbStreamsInductive, PTL

------------------------------------------------------------------------------
(* Transfers end.  Liveness needs fairness, which stays with TLC; what it  *)
(* rests on is that a transfer always has something to go on with, and     *)
(* that whatever client and guest do brings it nearer its end.             *)

(* Something of the kind is on its way to the client, an acknowledgment of *)
(* this stream to the guest.                                               *)
Comes(cmd, data) ==
    \E i \in 1..Len(toHost) : toHost[i].cmd = cmd /\ toHost[i].data \in data
Acks == \E i \in 1..Len(toGuest) : toGuest[i].cmd = "OKAY" /\ toGuest[i].to = Local

(* The guest may write, or will be let to; what the client waits for is    *)
(* there, or will be written.                                              *)
MayWrite == guest[Local].ready \/ Comes("WRTE", Replies) \/ Acks
Awaited ==
    /\ stage = "ack" /\ Settled => Comes("OKAY", {""})
    /\ op = "push" /\ (guest[Local].fails \/ (request = "DONE" /\ stage \in {"ack", "reply"} /\ Settled)) =>
           guest[Local].replies # <<>> \/ Comes("WRTE", Replies)
    /\ op = "pull" /\ stage \in {"ack", "reply"} /\ Settled =>
           guest[Local].replies # <<>> \/ Comes("WRTE", {"DONE", "FAIL"})
Transferring == op \in SyncOps /\ clean
WaitInv == Transferring => MayWrite /\ Awaited

(* The client can read, a read fails, or the guest can take or write.      *)
NeverStuck ==
    Transferring => \/ torn \/ ~up \/ toHost # <<>> \/ toGuest # <<>>
                    \/ guest[Local].ready /\ guest[Local].replies # <<>>

(* What is left of a transfer: the messages under way, the replies to      *)
(* come, and, at more than a request may bring about, the requests.        *)
ToSend == IF stage = "opened" THEN MaxChunks + 2
          ELSE IF request \in {"SEND", "DATA"} THEN MaxChunks + 1 - Len(output) ELSE 0
Share == ToSend + IF Settled THEN 0 ELSE 1
Weight == 3*MaxChunks + 5
Underway == Len(toGuest) + 2*Len(toHost) + 3*Len(guest[Local].replies)
Left == Underway + Weight*Share
Lessens ==
    /\ Left' <= Left
    /\ Ends \/ Guest => Left' < Left
GetsOn == [][Transferring /\ Transferring' => Left \in Nat /\ Left' \in Nat /\ Lessens]_vars

LEMMA Factor ==
    ASSUME NEW w \in Nat, NEW a \in Nat, NEW b \in Nat
    PROVE  /\ w*a \in Nat /\ w*b \in Nat
           /\ a <= b => w*a <= w*b
           /\ a + 1 <= b => w*a + w <= w*b
<1>1. a <= b => w*a <= w*b
  OBVIOUS
<1>2. a + 1 <= b => w*a + w <= w*b
  <2>1. w*(a + 1) = w*a + w
    OBVIOUS
  <2>2. a + 1 <= b => w*(a + 1) <= w*b
    OBVIOUS
  <2> QED
    BY <2>1, <2>2
<1> QED
  BY <1>1, <1>2

(* Everything that is counted is a number. *)
LEMMA Lengths ==
    ASSUME TypeInv, CleanInv, Transferring
    PROVE  /\ Local \in Ids /\ guest[Local].replies \in Seq(Chunks)
           /\ Len(toGuest) \in Nat /\ Len(toHost) \in Nat /\ Len(guest[Local].replies) \in Nat
           /\ Len(output) \in Nat /\ ToSend \in Nat /\ Share \in Nat /\ Weight \in Nat
<1>1. /\ clean /\ op # "none" /\ Local \in Ids /\ guest[Local] \in Streams
      /\ Alone /\ Flow /\ MaxChunks \in Nat
  BY Busy, StreamsNow, BoundsAssumption DEF Transferring, SyncOps, CleanInv
<1>2. /\ guest[Local].replies \in Seq(Chunks)
      /\ Len(toGuest) \in Nat /\ Len(toHost) \in Nat /\ Len(guest[Local].replies) \in Nat
      /\ Len(output) \in Nat
  BY <1>1 DEF Streams, TypeInv, TypeOK
<1>3. stage # "opened" /\ request \in {"SEND", "DATA"} => Len(output) <= MaxChunks
  <2>1. stage \in {"opened", "ack", "reply"} /\ op \in SyncOps
    BY <1>1 DEF Transferring, TypeInv, TypeOK, Sound, SyncOps
  <2> QED
    BY <1>1, <2>1 DEF Flow, PushStream, PullStream, SyncOps
<1>4. ToSend \in Nat
  BY <1>1, <1>2, <1>3 DEF ToSend
<1>5. Share \in Nat /\ Weight \in Nat
  BY <1>1, <1>4 DEF Share, Weight
<1> QED
  BY <1>1, <1>2, <1>4, <1>5

LEMMA Counted ==
    TypeInv /\ CleanInv /\ Transferring =>
        Underway \in Nat /\ Share \in Nat /\ Weight \in Nat /\ Left \in Nat
<1> SUFFICES ASSUME TypeInv, CleanInv, Transferring
             PROVE  Underway \in Nat /\ Share \in Nat /\ Weight \in Nat /\ Left \in Nat
  OBVIOUS
<1>1. PICK x \in Nat, y \in Nat, z \in Nat :
        x = Len(toGuest) /\ y = Len(toHost) /\ z = Len(guest[Local].replies)
  BY Lengths
<1>2. Underway = x + 2*y + 3*z
  BY <1>1 DEF Underway
<1>3. Underway \in Nat /\ Share \in Nat /\ Weight \in Nat
  BY <1>2, Lengths
<1>4. Weight*Share \in Nat
  BY <1>3, Factor
<1> QED
  BY <1>3, <1>4 DEF Left

(* A step counts less if nothing more is shared and fewer messages are     *)
(* under way, or if a request was taken.                                   *)
LEMMA CountsLess ==
    ASSUME TypeInv, CleanInv, Transferring, TypeInv', CleanInv', Transferring',
           \/ Share' <= Share /\ Underway' < Underway
           \/ Share' + 1 <= Share /\ Underway' < Underway + Weight
    PROVE  Left' < Left /\ Left' \in Nat /\ Left \in Nat
<1>1. (TypeInv /\ CleanInv /\ Transferring)' =>
          (Underway \in Nat /\ Share \in Nat /\ Weight \in Nat /\ Left \in Nat)'
  BY Counted, PTL
<1>2. Weight' = Weight
  BY DEF Weight
<1>3. PICK w \in Nat, a \in Nat, b \in Nat, m \in Nat, n \in Nat :
        w = Weight /\ a = Share' /\ b = Share /\ m = Underway /\ n = Underway'
  BY <1>1, Counted
<1>4. PICK x \in Nat, y \in Nat : x = w*a /\ y = w*b
  BY Factor
<1>5. Left = m + y /\ Left' = n + x
  BY <1>2, <1>3, <1>4 DEF Left
<1>6. (a <= b => x <= y) /\ (a + 1 <= b => x + w <= y)
  BY <1>4, Factor
<1>7. \/ a <= b /\ n < m
      \/ a + 1 <= b /\ n < m + w
  BY <1>3
<1> QED
  BY <1>5, <1>6, <1>7

(* What a read leaves to come, and what a write adds. *)
LEMMA ReadsOn ==
    ASSUME TypeInv, NEW c, Incoming(c), Receive, NEW cmd, NEW data, Comes(cmd, data),
           c # cmd \/ Head(toHost).data \notin data
    PROVE  Comes(cmd, data)'
<1>1. /\ Head(toHost) = toHost[1] /\ Head(toHost).cmd = c /\ Len(toHost) \in Nat \ {0}
      /\ Len(toHost') = Len(toHost) - 1 /\ \A i \in 1..Len(toHost') : toHost'[i] = toHost[i + 1]
  BY Received
<1>2. PICK i \in 1..Len(toHost) : toHost[i].cmd = cmd /\ toHost[i].data \in data
  BY DEF Comes
<1>3. i # 1
  BY <1>1, <1>2
<1>4. i - 1 \in 1..Len(toHost') /\ toHost'[i - 1] = toHost[i]
  <2>1. i - 1 \in 1..Len(toHost') /\ (i - 1) + 1 = i
    BY <1>1, <1>3
  <2> QED
    BY <1>1, <2>1
<1> QED
  BY <1>2, <1>4 DEF Comes

LEMMA WritesOn ==
    ASSUME TypeInv, NEW m \in Messages, m.cmd = "WRTE" => m.from \in Ids, Answer(<<m>>),
           NEW cmd, NEW data, Comes(cmd, data) \/ (m.cmd = cmd /\ m.data \in data)
    PROVE  Comes(cmd, data)'
<1>1. /\ Len(toHost') = Len(toHost) + 1 /\ Len(toHost) \in Nat
      /\ toHost'[Len(toHost) + 1] = m /\ \A i \in 1..Len(toHost) : toHost'[i] = toHost[i]
  BY Answered
<1>2. CASE Comes(cmd, data)
  <2>1. PICK i \in 1..Len(toHost) : toHost[i].cmd = cmd /\ toHost[i].data \in data
    BY <1>2 DEF Comes
  <2>2. i \in 1..Len(toHost') /\ toHost'[i] = toHost[i]
    BY <1>1
  <2> QED
    BY <2>1, <2>2 DEF Comes
<1>3. CASE m.cmd = cmd /\ m.data \in data
  <2>1. Len(toHost) + 1 \in 1..Len(toHost')
    BY <1>1
  <2> QED
    BY <1>1, <1>3, <2>1 DEF Comes
<1> QED
  BY <1>2, <1>3

LEMMA AcksOn ==
    ASSUME TypeInv, NEW m \in Messages, m.cmd # "OPEN", Write(<<m>>), Local' = Local,
           Acks \/ (m.cmd = "OKAY" /\ m.to = Local)
    PROVE  Acks'
<1>1. /\ Len(toGuest') = Len(toGuest) + 1 /\ Len(toGuest) \in Nat
      /\ toGuest'[Len(toGuest) + 1] = m /\ \A i \in 1..Len(toGuest) : toGuest'[i] = toGuest[i]
  BY Wrote
<1>2. CASE Acks
  <2>1. PICK i \in 1..Len(toGuest) : toGuest[i].cmd = "OKAY" /\ toGuest[i].to = Local
    BY <1>2 DEF Acks
  <2>2. i \in 1..Len(toGuest') /\ toGuest'[i] = toGuest[i]
    BY <1>1
  <2> QED
    BY <2>1, <2>2 DEF Acks
<1>3. CASE m.cmd = "OKAY" /\ m.to = Local
  <2>1. Len(toGuest) + 1 \in 1..Len(toGuest')
    BY <1>1
  <2> QED
    BY <1>1, <1>3, <2>1 DEF Acks
<1> QED
  BY <1>2, <1>3

(* The client reads a message and writes another: one less in all. *)
LEMMA ReadsAndWrites ==
    ASSUME TypeInv, CleanInv, Transferring, TypeInv', CleanInv', Transferring',
           NEW c, Incoming(c), Receive, NEW m \in Messages, m.cmd # "OPEN", Write(<<m>>),
           UNCHANGED guest, Local' = Local, Share' <= Share
    PROVE  Left' < Left /\ Left' \in Nat /\ Left \in Nat
<1>1. Len(toGuest') = Len(toGuest) + 1 /\ Len(toHost') = Len(toHost) - 1
  BY Received, Wrote
<1>2. PICK x \in Nat, y \in Nat, z \in Nat :
        x = Len(toGuest) /\ y = Len(toHost) /\ z = Len(guest[Local].replies)
  BY Lengths
<1>3. Underway = x + 2*y + 3*z /\ Underway' = (x + 1) + 2*(y - 1) + 3*z
  BY <1>1, <1>2 DEF Underway
<1>4. Underway' < Underway
  BY <1>3
<1> QED
  BY <1>4, CountsLess

LEMMA Requested ==
    ASSUME TypeInv, Transferring, NEW r \in Requests
    PROVE  LET m == Message("WRTE", Local, Local, r, 0) IN m \in Messages /\ m.cmd = "WRTE"
<1>1. Local \in 0..MaxOps /\ 0 \in 0..MaxChunks
  BY Busy, BoundsAssumption DEF Transferring, SyncOps
<1>2. r \in Requests \cup Chunks \cup {"", "shell", "sync", "QUIT"}
  OBVIOUS
<1>3. Message("WRTE", Local, Local, r, 0) \in Messages
  BY <1>1, <1>2, Made
<1>4. Message("WRTE", Local, Local, r, 0).cmd = "WRTE"
  BY Fields
<1> QED
  BY <1>3, <1>4

LEMMA SyncOpenedGoesOn ==
    ASSUME TypeInv, CleanInv, Transferring, TypeInv', CleanInv', Transferring',
           WaitInv, SyncOpened
    PROVE  WaitInv' /\ Left' < Left /\ Left' \in Nat /\ Left \in Nat
<1>1. /\ op \in SyncOps /\ clean /\ stage = "opened" /\ Local \in Ids /\ Local' = Local
      /\ UNCHANGED <<op, guest>> /\ Incoming("OKAY") /\ Receive /\ Head(toHost) = toHost[1]
      /\ toHost[1].cmd = "OKAY" /\ toHost # <<>>
  BY Busy, Received DEF SyncOpened, Request, Transferring, SyncOps, Local, Incoming
<1>2. SyncOpen
  BY <1>1, NotOpenHead DEF CleanInv, Flow
<1>3. Settled /\ toHost = <<Ack(Local, Local)>> /\ output = <<>> /\ Head(toHost).from = Local
      /\ guest[Local].replies = <<>>
  BY <1>1, <1>2, Fields DEF SyncOpen
<1>4. PICK r \in {"SEND", "RECV"} : Request(Local, r) /\ (r = "SEND" <=> op = "push")
  BY <1>3 DEF SyncOpened
<1> DEFINE m == Message("WRTE", Local, Local, r, 0)
<1>5. Write(<<m>>) /\ stage' = "ack" /\ request' = r /\ output' = <<>> /\ ~Settled'
  <2>1. r \in Requests /\ r # "DATA"
    BY DEF Requests
  <2> QED
    BY <1>1, <1>3, <1>4, <2>1, RequestPending DEF Request
<1>6. m \in Messages /\ m.cmd = "WRTE"
  BY Requested DEF Requests
<1> HIDE DEF m
<1>7. Share' <= Share
  <2>1. ToSend = MaxChunks + 2 /\ Len(output') = 0
    BY <1>1, <1>5 DEF ToSend
  <2>2. ToSend' = IF r = "SEND" THEN MaxChunks + 1 - Len(output') ELSE 0
    BY <1>5 DEF ToSend
  <2>3. PICK k \in Nat : k = MaxChunks
    BY BoundsAssumption
  <2>4. Share = k + 2
    BY <1>3, <2>1, <2>3 DEF Share
  <2>5. Share' = (IF r = "SEND" THEN k + 1 ELSE 0) + 1
    BY <1>5, <2>1, <2>2, <2>3 DEF Share
  <2> QED
    BY <2>4, <2>5
<1>8. Left' < Left /\ Left' \in Nat /\ Left \in Nat
  BY <1>1, <1>5, <1>6, <1>7, ReadsAndWrites
<1>9. \A data : ~Comes("WRTE", data)
  <2>1. Ack(Local, Local).cmd = "OKAY" /\ Len(toHost) = 1
    BY <1>3, Fields
  <2> QED
    BY <1>1, <1>3, <2>1 DEF Comes
<1>10. MayWrite /\ Awaited
  BY DEF WaitInv
<1>11. MayWrite'
  <2>1. guest[Local].ready \/ Acks
    BY <1>9, <1>10 DEF MayWrite
  <2> QED
    BY <1>1, <1>5, <1>6, <2>1, AcksOn DEF MayWrite
<1>12. op = "push" => ~guest[Local].fails
  BY <1>3, <1>9, <1>10 DEF Awaited
<1>13. Awaited'
  BY <1>1, <1>5, <1>12 DEF Awaited
<1> QED
  BY <1>8, <1>11, <1>13 DEF WaitInv

LEMMA AckedGoesOn ==
    ASSUME TypeInv, CleanInv, Transferring, TypeInv', CleanInv', Transferring',
           WaitInv, Acked
    PROVE  WaitInv' /\ Left' < Left /\ Left' \in Nat /\ Left \in Nat
<1>0. ~Fails
  BY DEF Transferring, Fails, Return, SyncOps
<1>1. /\ op \in SyncOps /\ clean /\ stage = "ack" /\ Local \in Ids /\ Local' = Local
      /\ UNCHANGED <<op, guest>> /\ Incoming("OKAY") /\ Receive
      /\ Head(toHost) = toHost[1] /\ toHost[1].cmd = "OKAY" /\ toHost # <<>> /\ 1 \in 1..Len(toHost)
  <2>1. /\ op \in SyncOps /\ clean /\ stage = "ack" /\ Local \in Ids
        /\ Incoming("OKAY") /\ Receive /\ toHost # <<>> /\ UNCHANGED guest
    BY Busy DEF Acked, Transferring, SyncOps, Incoming
  <2>2. UNCHANGED <<op, nextLocal>>
    BY <1>0 DEF Acked, Request
  <2>3. Head(toHost) = toHost[1] /\ toHost[1].cmd = "OKAY" /\ 1 \in 1..Len(toHost)
    BY <2>1, Received
  <2> QED
    BY <2>1, <2>2, <2>3 DEF Local
<1>2. /\ Exchange /\ (op = "push" => PushStream) /\ (op = "pull" => PullStream)
      /\ MayWrite /\ Awaited /\ remote = Local
  BY <1>1 DEF CleanInv, Flow, WaitInv, Exchange
<1>3. Settled
  <2>1. CASE op = "push"
    BY <1>1, <1>2, <2>1 DEF PushStream, OneAck
  <2>2. CASE op = "pull"
    BY <1>1, <1>2, <2>2, PullHead
  <2> QED
    BY <1>1, <2>1, <2>2 DEF SyncOps
<1>4. \A data : Comes("WRTE", data) => Comes("WRTE", data)'
  BY <1>1, ReadsOn
<1>5. ASSUME request \in {"SEND", "DATA"}, NEW r \in NextRequests, Request(remote, r)
      PROVE  WaitInv' /\ Left' < Left /\ Left' \in Nat /\ Left \in Nat
  <2> DEFINE m == Message("WRTE", Local, Local, r, 0)
  <2>1. op = "push"
    BY <1>1, <1>2, <1>5 DEF PullStream, SyncOps
  <2>2. r \in Requests /\ r \in {"DATA", "DONE"} /\ Request(Local, r)
    BY <1>2, <1>5 DEF Requests, NextRequests
  <2>3. Write(<<m>>) /\ stage' = "ack" /\ request' = r /\ ~Settled'
    BY <1>1, <1>3, <2>2, RequestPending DEF Request
  <2>4. m \in Messages /\ m.cmd = "WRTE"
    BY <2>2, Requested
  <2> HIDE DEF m
  <2>5. Share' <= Share
    <3>1. PICK k \in Nat, n \in Nat : k = MaxChunks /\ n = Len(output)
      BY Lengths, BoundsAssumption
    <3>2. n <= k /\ Share = k + 1 - n
      BY <1>1, <1>2, <1>3, <1>5, <2>1, <3>1 DEF PushStream, Share, ToSend
    <3>3. r = "DATA" => Len(output') = n + 1
      BY <2>2, <3>1 DEF Request, TypeInv, TypeOK
    <3>4. Share' = (IF r = "DATA" THEN k + 1 - Len(output') ELSE 0) + 1
      BY <2>2, <2>3, <3>1 DEF Share, ToSend
    <3> QED
      BY <2>2, <3>2, <3>3, <3>4
  <2>6. Left' < Left /\ Left' \in Nat /\ Left \in Nat
    BY <1>1, <2>3, <2>4, <2>5, ReadsAndWrites
  <2>7. MayWrite'
    BY <1>1, <1>2, <1>4, <2>3, <2>4, AcksOn DEF MayWrite
  <2>8. Awaited'
    BY <1>1, <1>2, <1>4, <2>1, <2>3 DEF Awaited
  <2> QED
    BY <2>6, <2>7, <2>8 DEF WaitInv
<1>6. ASSUME request \in {"DONE", "RECV"}, stage' = "reply",
             UNCHANGED <<op, request, remote, output, nextLocal, streams, result, clean, toGuest>>
      PROVE  WaitInv' /\ Left' < Left /\ Left' \in Nat /\ Left \in Nat
  <2>1. Settled' /\ Acks' = Acks
    BY <1>1, <1>3, <1>6 DEF Settled, Acks
  <2>2. Share = 0 /\ Share' = 0
    BY <1>1, <1>3, <1>6, <2>1 DEF Share, ToSend
  <2>3. Underway' < Underway
    <3>1. PICK x \in Nat, y \in Nat, z \in Nat :
            x = Len(toGuest) /\ y = Len(toHost) /\ z = Len(guest[Local].replies)
      BY Lengths
    <3>2. Len(toHost') = Len(toHost) - 1
      BY <1>1, Received
    <3>3. Underway = x + 2*y + 3*z /\ Underway' = x + 2*(y - 1) + 3*z
      BY <1>1, <1>6, <3>1, <3>2 DEF Underway
    <3> QED
      BY <3>3
  <2>4. Left' < Left /\ Left' \in Nat /\ Left \in Nat
    BY <2>2, <2>3, CountsLess
  <2>5. MayWrite'
    BY <1>1, <1>2, <1>4, <2>1 DEF MayWrite
  <2>6. Awaited'
    BY <1>1, <1>2, <1>3, <1>4, <1>6, <2>1 DEF Awaited
  <2> QED
    BY <2>4, <2>5, <2>6 DEF WaitInv
<1> QED
  BY <1>0, <1>5, <1>6 DEF Acked

LEMMA ReplyGoesOn ==
    ASSUME TypeInv, CleanInv, Transferring, TypeInv', CleanInv', Transferring',
           WaitInv, Reply
    PROVE  WaitInv' /\ Left' < Left /\ Left' \in Nat /\ Left \in Nat
<1>1. op' # "none"
  BY DEF Transferring, SyncOps
<1>2. /\ op = "pull" /\ Head(toHost).data = "DATA" /\ Write(ReplyAck)
      /\ UNCHANGED <<op, stage, request, remote, nextLocal, streams, result, clean>>
  BY <1>1 DEF Reply, CloseSession, Return, Fails
<1>3. /\ stage = "reply" /\ Local \in Ids /\ Local' = Local /\ remote = Local /\ Settled
      /\ PullStream /\ UNCHANGED guest /\ Incoming("WRTE") /\ Receive /\ clean
      /\ MayWrite /\ Awaited
  BY <1>2, ReplyAt DEF Local, Reply, Transferring, WaitInv
<1> DEFINE m == Ack(Local, Local)
<1>4. m \in Messages /\ m.cmd = "OKAY" /\ m.to = Local /\ Write(<<m>>)
  <2>1. m \in Messages /\ m.cmd = "OKAY" /\ m.to = Local
    BY Busy, MadeAcks, Fields DEF Transferring, SyncOps
  <2> QED
    BY <1>2, <1>3, <2>1 DEF ReplyAck
<1> HIDE DEF m
<1>5. Settled'
  BY <1>3, <1>4, StillSettled
<1>6. Share' = 0 /\ Share = 0
  BY <1>2, <1>3, <1>5 DEF Share, ToSend, PullStream
<1>7. Left' < Left /\ Left' \in Nat /\ Left \in Nat
  BY <1>3, <1>4, <1>6, ReadsAndWrites
<1>8. MayWrite'
  BY <1>3, <1>4, AcksOn DEF MayWrite
<1>9. Awaited'
  <2>1. Comes("WRTE", {"DONE", "FAIL"}) => Comes("WRTE", {"DONE", "FAIL"})'
    BY <1>2, <1>3, ReadsOn
  <2> QED
    BY <1>2, <1>3, <2>1 DEF Awaited
<1> QED
  BY <1>7, <1>8, <1>9 DEF WaitInv

(* The guest takes an acknowledgment. *)
LEMMA TakesAckGoesOn ==
    ASSUME TypeInv, CleanInv, Transferring, TypeInv', CleanInv', Transferring',
           WaitInv, GuestTakes, Head(toGuest).cmd = "OKAY"
    PROVE  WaitInv' /\ Left' < Left /\ Left' \in Nat /\ Left \in Nat
<1> DEFINE to == Head(toGuest).to
<1>1. /\ UNCHANGED <<op, stage, request, output, nextLocal, clean, toHost>> /\ Local' = Local
      /\ \A k \in Ids :
             guest'[k].replies = guest[k].replies /\ guest'[k].fails = guest[k].fails
  BY TakesAck DEF clientVars, Local
<1>2. /\ op \in SyncOps /\ Local \in Ids /\ MayWrite /\ Awaited /\ guest \in [Ids -> Streams]
      /\ Flow
  BY Lengths, StreamsNow DEF Transferring, WaitInv, CleanInv
<1>3. /\ Head(toGuest) = toGuest[1] /\ Len(toGuest) \in Nat \ {0}
      /\ Len(toGuest') = Len(toGuest) - 1
      /\ \A i \in 1..Len(toGuest') : toGuest'[i] = toGuest[i + 1]
  BY Taken DEF GuestTakes
<1>4. Settled' <=> Settled
  BY AckTaken
<1>5. Share' = Share
  BY <1>1, <1>4 DEF Share, ToSend
<1>6. Underway' < Underway
  <2>1. PICK x \in Nat, y \in Nat, z \in Nat :
          x = Len(toGuest) /\ y = Len(toHost) /\ z = Len(guest[Local].replies)
    BY Lengths
  <2>2. Underway = x + 2*y + 3*z /\ Underway' = (x - 1) + 2*y + 3*z
    BY <1>1, <1>2, <1>3, <2>1 DEF Underway
  <2> QED
    BY <2>2
<1>7. Share' <= Share
  BY <1>5, Lengths
<1>8. Left' < Left /\ Left' \in Nat /\ Left \in Nat
  BY <1>6, <1>7, CountsLess
<1>9. \A cmd, data : Comes(cmd, data)' <=> Comes(cmd, data)
  BY <1>1 DEF Comes
<1>10. Awaited'
  BY <1>1, <1>2, <1>4, <1>9 DEF Awaited
<1>11. \/ UNCHANGED guest
       \/ OpenAt(to) /\ Set(to, "ready", TRUE)
  BY DEF GuestTakes, GuestOpens, GuestReads
<1>12. guest[Local].ready => guest'[Local].ready
  <2>1. CASE UNCHANGED guest
    BY <2>1
  <2>2. CASE OpenAt(to) /\ Set(to, "ready", TRUE)
    <3>1. to \in Ids /\ guest' = [guest EXCEPT ![to]["ready"] = TRUE]
      BY <2>2 DEF OpenAt, Set
    <3> HIDE DEF to
    <3> QED
      BY <1>2, <3>1 DEF Streams
  <2> QED
    BY <1>11, <2>1, <2>2
<1>13. to = Local => guest'[Local].ready
  <2> SUFFICES ASSUME to = Local PROVE guest'[Local].ready
    OBVIOUS
  <2>1. CASE OpenAt(to) /\ Set(to, "ready", TRUE)
    <3>1. guest' = [guest EXCEPT ![Local]["ready"] = TRUE]
      BY <2>1 DEF Set
    <3> QED
      BY <1>2, <3>1 DEF Streams
  <2>2. CASE UNCHANGED guest /\ ~OpenAt(to)
    <3>1. ~OpenAt(Local)
      BY <2>2
    <3>2. stage \in {"opened", "ack", "reply"}
      BY <1>2 DEF TypeInv, TypeOK, Sound, SyncOps
    <3>3. NotOpen
      BY <1>2, <3>1, <3>2 DEF Flow, SyncOpen, Exchange, OpenAt
    <3>4. guest[Local].ready
      BY <3>3 DEF NotOpen, NoStream
    <3> QED
      BY <2>2, <3>4
  <2>3. OpenAt(to) => Set(to, "ready", TRUE)
    BY DEF GuestTakes, GuestOpens, GuestReads
  <2> QED
    BY <1>11, <2>1, <2>2, <2>3
<1>14. to # Local /\ Acks => Acks'
  <2> SUFFICES ASSUME to # Local, Acks PROVE Acks'
    OBVIOUS
  <2>1. PICK i \in 1..Len(toGuest) : toGuest[i].cmd = "OKAY" /\ toGuest[i].to = Local
    BY DEF Acks
  <2>2. i # 1
    BY <1>3, <2>1
  <2>3. i - 1 \in 1..Len(toGuest') /\ (i - 1) + 1 = i
    BY <1>3, <2>2
  <2>4. toGuest'[i - 1] = toGuest[i]
    BY <1>3, <2>3
  <2> QED
    BY <1>1, <2>1, <2>3, <2>4 DEF Acks
<1> HIDE DEF to
<1>15. MayWrite'
  BY <1>1, <1>2, <1>9, <1>12, <1>13, <1>14 DEF MayWrite
<1> QED
  BY <1>8, <1>10, <1>15 DEF WaitInv

(* What the guest does to its stream when it is asked for something. *)
LEMMA ServedOn ==
    ASSUME guest \in [Ids -> Streams], NEW l \in Ids, NEW data \in Requests, Serve(l, data)
    PROVE  /\ guest'[l].ready = guest[l].ready
           /\ data = "SEND" /\ guest'[l].fails => guest'[l].replies # <<>>
           /\ data = "DATA" => guest'[l].fails = guest[l].fails /\ guest'[l].replies = guest[l].replies
           /\ data = "DONE" => \/ guest'[l].replies # <<>>
                               \/ guest[l].fails /\ guest'[l].replies = guest[l].replies
           /\ data = "RECV" => guest'[l].replies # <<>>
           /\ Len(guest'[l].replies) <= Len(guest[l].replies) + MaxChunks + 1
<1>1. MaxChunks \in Nat /\ guest[l] \in Streams /\ Len(guest[l].replies) \in Nat
  BY BoundsAssumption DEF Streams
<1>2. CASE data = "SEND"
  <2>1. PICK f \in BOOLEAN :
          guest' = [guest EXCEPT ![l].fails = f, ![l].said = 0,
                                 ![l].replies = IF f THEN <<"FAIL">> ELSE <<>>]
    BY <1>2 DEF Serve
  <2>2. /\ guest'[l].fails = f /\ guest'[l].ready = guest[l].ready
        /\ guest'[l].replies = IF f THEN <<"FAIL">> ELSE <<>>
    BY <1>1, <2>1 DEF Streams
  <2>3. Len(guest'[l].replies) \in {0, 1}
    BY <2>2, OneReply
  <2> QED
    BY <1>1, <1>2, <2>2, <2>3, OneReply
<1>3. CASE data = "DATA"
  <2>1. guest' = [guest EXCEPT ![l].said = OneMore(@)]
    BY <1>3 DEF Serve
  <2>2. /\ guest'[l].fails = guest[l].fails /\ guest'[l].ready = guest[l].ready
        /\ guest'[l].replies = guest[l].replies
    BY <1>1, <2>1 DEF Streams
  <2> QED
    BY <1>1, <1>3, <2>2
<1>4. CASE data = "DONE"
  <2>1. PICK f \in BOOLEAN :
          guest' = [guest EXCEPT ![l].fails = @ \/ f,
                                 ![l].replies = IF guest[l].fails THEN @
                                                ELSE IF f THEN <<"FAIL">> ELSE <<"OKAY">>]
    BY <1>4 DEF Serve
  <2>2. /\ guest'[l].ready = guest[l].ready
        /\ guest'[l].replies = IF guest[l].fails THEN guest[l].replies
                               ELSE IF f THEN <<"FAIL">> ELSE <<"OKAY">>
    BY <1>1, <2>1 DEF Streams
  <2>3. Len(guest'[l].replies) \in {1, Len(guest[l].replies)}
    BY <2>2, OneReply
  <2> QED
    BY <1>1, <1>4, <2>2, <2>3, OneReply
<1>5. CASE data = "RECV"
  <2>1. PICK r \in {<<"FAIL">>}
              \cup {[i \in 1..(k + 1) |-> IF i <= k THEN "DATA" ELSE "DONE"] : k \in 0..MaxChunks} :
          guest' = [guest EXCEPT ![l].replies = r, ![l].said = 0]
    BY <1>5 DEF Serve
  <2>2. guest'[l].ready = guest[l].ready /\ guest'[l].replies = r
    BY <1>1, <2>1 DEF Streams
  <2>3. r # <<>> /\ Len(r) \in 1..(MaxChunks + 1)
    <3>1. CASE r = <<"FAIL">>
      BY <1>1, <3>1, OneReply
    <3>2. ASSUME NEW k \in 0..MaxChunks,
                 r = [i \in 1..(k + 1) |-> IF i <= k THEN "DATA" ELSE "DONE"]
          PROVE  r # <<>> /\ Len(r) \in 1..(MaxChunks + 1)
      BY <1>1, <3>2, PullReplies
    <3> QED
      BY <3>1, <3>2
  <2> QED
    BY <1>1, <1>5, <2>2, <2>3
<1> QED
  BY <1>2, <1>3, <1>4, <1>5 DEF Requests

(* The guest takes a request, or the opening of the stream. *)
LEMMA TakesLastGoesOn ==
    ASSUME TypeInv, CleanInv, Transferring, TypeInv', CleanInv', Transferring',
           WaitInv, GuestTakes, Head(toGuest).cmd # "OKAY"
    PROVE  WaitInv' /\ Left' < Left /\ Left' \in Nat /\ Left \in Nat
<1>1. /\ op \in SyncOps /\ Local \in Ids /\ MayWrite /\ Awaited /\ guest \in [Ids -> Streams]
      /\ clean /\ MaxChunks \in Nat
  BY Lengths, StreamsNow, BoundsAssumption DEF Transferring, WaitInv
<1>2. /\ toGuest' = <<>> /\ Settled' /\ ~Settled /\ toGuest # <<>>
      /\ UNCHANGED <<op, stage, request, output, nextLocal>> /\ Local' = Local
      /\ \/ NotOpen /\ Pending(Opening) /\ toHost = <<>> /\ Head(toGuest) = Opening
            /\ stage \in {"output", "opened"}
         \/ Exchange /\ Pending(Asking) /\ Head(toGuest) = Asking /\ stage = "ack"
            /\ (op = "push" => PushStream) /\ (op = "pull" => PullStream)
  BY <1>1, LastTaken DEF GuestTakes
<1>3. Share' + 1 <= Share
  <2>1. ToSend' = ToSend /\ ToSend \in Nat
    BY <1>2, Lengths DEF ToSend
  <2>2. Share = ToSend + 1 /\ Share' = ToSend
    BY <1>2, <2>1 DEF Share
  <2> QED
    BY <2>1, <2>2
<1>4. PICK x \in Nat, y \in Nat, z \in Nat, w \in Nat, k \in Nat :
        /\ x = Len(toGuest) /\ y = Len(toHost) /\ z = Len(guest[Local].replies)
        /\ w = Weight /\ k = MaxChunks /\ w = 3*k + 5 /\ x >= 1
  <2>1. Len(toGuest) >= 1
    BY <1>2, Lengths DEF TypeInv, TypeOK
  <2> QED
    BY <1>1, <2>1, Lengths DEF Weight
<1>5. Len(toGuest') = 0
  BY <1>2
<1>6. ASSUME NEW v \in Nat, v = Len(guest'[Local].replies), v <= z + k + 1,
             Len(toHost') = y + 1
      PROVE  Left' < Left /\ Left' \in Nat /\ Left \in Nat
  <2>1. Len(toGuest') = 0 /\ Len(toHost') = y + 1 /\ Len(guest'[Local'].replies) = v
    BY <1>2, <1>5, <1>6
  <2>2. Underway = x + 2*y + 3*z /\ Underway' = 0 + 2*(y + 1) + 3*v
    BY <1>4, <2>1 DEF Underway
  <2>3. w = 3*k + 5 /\ x >= 1 /\ v <= z + k + 1
    BY <1>4, <1>6
  <2>4. 0 + 2*(y + 1) + 3*v < x + 2*y + 3*z + w
    BY <2>3
  <2>5. Underway' < Underway + w
    BY <2>2, <2>4
  <2> QED
    BY <1>3, <1>4, <2>5, CountsLess
<1>7. CASE /\ NotOpen /\ toHost = <<>> /\ Head(toGuest) = Opening /\ stage \in {"output", "opened"}
  <2>1. guest[Local] = NoStream /\ stage = "opened"
    BY <1>1, <1>7 DEF NotOpen, TypeInv, Sound, SyncOps
  <2>2. Opening.cmd = "OPEN" /\ Opening.from = Local /\ Opening.data = "sync"
    BY <1>1 DEF Opening, Message, SyncOps
  <2>3. \/ Answer(<<Ack(Local, Local)>>) /\ Set(Local, "service", "sync")
        \/ Answer(<<Close(0, Local)>>) /\ UNCHANGED guest
    BY <1>7, <2>2 DEF GuestTakes, GuestOpens, GuestReads
  <2>4. Len(toHost') = 1 /\ y = 0
    BY <1>4, <1>7, <2>3 DEF Answer
  <2>5. guest'[Local].ready /\ ~guest'[Local].fails /\ guest'[Local].replies = <<>>
    <3>1. guest[Local].ready /\ ~guest[Local].fails /\ guest[Local].replies = <<>>
      BY <2>1 DEF NoStream
    <3>2. CASE Set(Local, "service", "sync")
      <4>1. guest'[Local] = [guest[Local] EXCEPT !.service = "sync"]
        BY <1>1, <3>2, ServiceSet
      <4> QED
        BY <2>1, <4>1 DEF NoStream
    <3> QED
      BY <2>3, <3>1, <3>2
  <2>6. Left' < Left /\ Left' \in Nat /\ Left \in Nat
    BY <1>6, <2>4, <2>5
  <2>7. MayWrite' /\ Awaited'
    BY <1>2, <2>1, <2>5 DEF MayWrite, Awaited
  <2> QED
    BY <2>6, <2>7 DEF WaitInv
<1>8. CASE /\ Exchange /\ Pending(Asking) /\ Head(toGuest) = Asking /\ stage = "ack"
           /\ (op = "push" => PushStream) /\ (op = "pull" => PullStream)
  <2>1. /\ Asking.cmd = "WRTE" /\ Asking.from = Local /\ Asking.to = Local /\ Asking.data = request
        /\ OpenAt(Local)
    BY <1>1, <1>8 DEF Asking, Message, OpenAt, Exchange
  <2>2. request \in Requests /\ request # "QUIT" /\ (op = "push" => request # "RECV")
        /\ (op = "pull" => request = "RECV")
    BY <1>1, <1>8 DEF PushStream, PullStream, SyncOps, Requests
  <2>3. Serve(Local, request) /\ Answer(<<Ack(Local, Local)>>)
    <3>1. /\ Serve(Local, request)
          /\ Answer(<<Ack(Local, Local)>> \o IF request = "QUIT" THEN <<Close(Local, Local)>> ELSE <<>>)
      BY <1>8, <2>1 DEF GuestTakes, GuestOpens, GuestReads
    <3> QED
      BY <2>2, <3>1 DEF Answer
  <2> DEFINE m == Ack(Local, Local)
  <2>4. m \in Messages /\ m.cmd = "OKAY" /\ m.data = ""
    <3>1. m \in Messages /\ m.cmd = "OKAY"
      BY <1>1, Busy, MadeAcks DEF SyncOps
    <3> QED
      BY <3>1 DEF Ack, Message
  <2>5. Answer(<<m>>)
    BY <2>3
  <2> HIDE DEF m
  <2>6. Len(toHost') = y + 1
    BY <1>4, <2>4, <2>5, Answered
  <2>7. /\ Comes("OKAY", {""})'
        /\ \A data : Comes("WRTE", data) => Comes("WRTE", data)'
    BY <2>4, <2>5, WritesOn
  <2>8. /\ guest'[Local].ready = guest[Local].ready
        /\ request = "SEND" /\ guest'[Local].fails => guest'[Local].replies # <<>>
        /\ request = "DATA" => /\ guest'[Local].fails = guest[Local].fails
                               /\ guest'[Local].replies = guest[Local].replies
        /\ request = "DONE" => \/ guest'[Local].replies # <<>>
                               \/ /\ guest[Local].fails
                                  /\ guest'[Local].replies = guest[Local].replies
        /\ request = "RECV" => guest'[Local].replies # <<>>
        /\ Len(guest'[Local].replies) <= z + k + 1
    BY <1>1, <1>4, <2>2, <2>3, ServedOn
  <2>9. Len(guest'[Local].replies) \in Nat
    <3>1. guest' \in [Ids -> Streams]
      BY <1>1, <2>3, Served
    <3> QED
      BY <1>1, <3>1 DEF Streams
  <2>10. Left' < Left /\ Left' \in Nat /\ Left \in Nat
    BY <1>6, <2>6, <2>8, <2>9
  <2>11. ~Acks
    <3>1. Len(toGuest) = 1 /\ toGuest[1].cmd # "OKAY"
      <4>1. \A i \in 1..(x - 1) : toGuest[i].cmd = "OKAY"
        BY <1>4, <1>8 DEF Pending
      <4>2. Head(toGuest) = toGuest[1]
        BY Taken DEF GuestTakes
      <4>3. 1 \notin 1..(x - 1)
        BY <4>1, <4>2
      <4> QED
        BY <1>4, <4>2, <4>3
    <3> QED
      BY <3>1 DEF Acks
  <2>12. MayWrite'
    BY <1>1, <1>2, <2>7, <2>8, <2>11 DEF MayWrite
  <2>13. op = "push" /\ guest'[Local].fails => guest'[Local].replies # <<>> \/ Comes("WRTE", Replies)'
    BY <1>1, <2>2, <2>7, <2>8 DEF Awaited, Requests
  <2>14. op = "push" /\ request = "DONE" => guest'[Local].replies # <<>> \/ Comes("WRTE", Replies)'
    BY <1>1, <2>7, <2>8 DEF Awaited
  <2>15. Awaited'
    BY <1>1, <1>2, <2>2, <2>7, <2>8, <2>13, <2>14 DEF Awaited
  <2> QED
    BY <2>10, <2>12, <2>15 DEF WaitInv
<1> QED
  BY <1>2, <1>7, <1>8

(* The guest writes a reply. *)
LEMMA RepliesGoesOn ==
    ASSUME TypeInv, CleanInv, Transferring, TypeInv', CleanInv', Transferring',
           WaitInv, NEW l \in Ids, GuestReplies(l)
    PROVE  WaitInv' /\ Left' < Left /\ Left' \in Nat /\ Left \in Nat
<1> DEFINE r == guest[l].replies
           data == Head(r)
           n == IF data = "DATA" THEN OneMore(guest[l].said) ELSE 0
           m == Message("WRTE", l, l, data, n)
<1>1. guest[l].service = "sync" /\ r # <<>> /\ clean
  BY DEF GuestReplies, Transferring
<1>2. l = Local /\ ~SyncOpen /\ Local \in Ids
  BY <1>1, OwnWrites DEF SyncOpen
<1>3. /\ stage \in {"ack", "reply"} /\ op \in SyncOps
      /\ op = "pull" => PullStream
      /\ MayWrite /\ Awaited
  BY <1>1, <1>2, OwnWrites DEF Transferring, WaitInv
<1>4. /\ data \in Replies /\ guest'[l].replies = Tail(r) /\ guest'[l].fails = guest[l].fails
      /\ m \in Messages /\ Answer(<<m>>) /\ UNCHANGED <<clientVars, toGuest>>
  <2>1. r \in Seq(Chunks) /\ data = r[1] /\ Len(r) \in Nat \ {0}
    BY <1>1, <1>2, StreamsNow, TakeOne DEF Streams
  <2>2. CASE op = "push"
    <3>1. PushStream
      BY <1>1, <1>2, <2>2, OwnWrites
    <3> QED
      BY <1>1, <1>2, <2>1, <2>2, <3>1, OneReply, Replied DEF PushStream, Replies
  <2>3. CASE op = "pull"
    <3>1. LastReply(r)
      BY <1>1, <1>2, <1>3, <2>3 DEF PullStream, Pulling, NotPulling
    <3>2. data \in {"DATA", "DONE", "FAIL"}
      BY <2>1, <3>1 DEF LastReply
    <3> QED
      BY <3>2, Replied DEF Replies
  <2> QED
    BY <1>3, <2>2, <2>3 DEF SyncOps
<1>5. m.cmd = "WRTE" /\ m.from = l /\ m.data = data
  BY Fields
<1>6. r \in Seq(Chunks)
  BY <1>2, Lengths
<1>7. /\ data = r[1] /\ Len(r) \in Nat \ {0} /\ Len(Tail(r)) = Len(r) - 1
      /\ Tail(r) \in Seq(Chunks)
  BY <1>1, <1>6, TakeOne
<1>8. op = "pull" /\ Settled => Tail(r) # <<>> \/ data \in {"DONE", "FAIL"}
  <2> SUFFICES ASSUME op = "pull", Settled, Tail(r) = <<>> PROVE data \in {"DONE", "FAIL"}
    OBVIOUS
  <2>1. Len(r) = 1
    <3>1. ASSUME NEW s, s = <<>> PROVE Len(s) = 0
      BY <3>1
    <3>2. Len(Tail(r)) = 0
      BY <3>1
    <3> QED
      BY <1>7, <3>2
  <2>2. LastReply(r)
    BY <1>2, <1>3 DEF PullStream, Pulling
  <2> HIDE DEF r
  <2> QED
    BY <1>7, <2>1, <2>2 DEF LastReply
<1>9. /\ UNCHANGED <<op, stage, request, output, nextLocal>> /\ Local' = Local
      /\ Settled' = Settled /\ Acks' = Acks
  BY <1>4 DEF clientVars, Local, Settled, Acks
<1> HIDE DEF m, data, r
<1>10. Len(toHost') = Len(toHost) + 1
  BY <1>4, <1>5, Answered
<1>11. /\ Comes("WRTE", Replies)'
       /\ Comes("OKAY", {""}) => Comes("OKAY", {""})'
       /\ Comes("WRTE", {"DONE", "FAIL"}) \/ data \in {"DONE", "FAIL"} =>
              Comes("WRTE", {"DONE", "FAIL"})'
  BY <1>2, <1>4, <1>5, WritesOn
<1>12. Underway' < Underway
  <2>1. PICK x \in Nat, y \in Nat, z \in Nat :
          x = Len(toGuest) /\ y = Len(toHost) /\ z = Len(guest[Local].replies)
    BY Lengths
  <2>2. z = Len(r) /\ Len(guest'[Local'].replies) = z - 1
    BY <1>2, <1>4, <1>7, <1>9, <2>1 DEF r
  <2>3. Underway = x + 2*y + 3*z /\ Underway' = x + 2*(y + 1) + 3*(z - 1)
    BY <1>4, <1>10, <2>1, <2>2 DEF Underway
  <2> QED
    BY <2>3
<1>13. Share' = Share
  BY <1>9 DEF Share, ToSend
<1>14. Share' <= Share
  BY <1>13, Lengths
<1>15. Left' < Left /\ Left' \in Nat /\ Left \in Nat
  BY <1>12, <1>14, CountsLess
<1>16. MayWrite' /\ Awaited'
  BY <1>2, <1>3, <1>4, <1>8, <1>9, <1>11 DEF MayWrite, Awaited
<1> QED
  BY <1>15, <1>16 DEF WaitInv

(* A transfer begins with nothing asked and nothing owed. *)
LEMMA OpenGoesOn ==
    ASSUME TypeInv, CleanInv, CleanInv', NEW o, Open(o, "sync", "opened")
    PROVE  WaitInv'
<1> SUFFICES ASSUME clean' PROVE MayWrite' /\ Awaited'
  BY DEF WaitInv, Transferring
<1>1. op = "none" /\ stage' = "opened" /\ toHost' = toHost /\ clean
  BY DEF Open
<1>2. toHost' = <<>>
  BY <1>1 DEF CleanInv, Alone
<1>3. NotOpen'
  <2>1. SyncOpen' => FALSE
    BY <1>2 DEF SyncOpen
  <2> QED
    BY <1>1, <2>1 DEF CleanInv, Flow
<1>4. guest'[Local'].ready /\ ~guest'[Local'].fails
  BY <1>3 DEF NotOpen, NoStream
<1> QED
  BY <1>1, <1>4 DEF MayWrite, Awaited

(* Of a transfer that goes on. *)
LEMMA TransferStep ==
    ASSUME TypeInv, CleanInv, Transferring, TypeInv', CleanInv', Transferring', WaitInv, [Next]_vars
    PROVE  WaitInv' /\ Left \in Nat /\ Left' \in Nat /\ Left' <= Left /\ (Ends \/ Guest => Left' < Left)
<1>1. /\ op \in SyncOps /\ clean /\ op # "none" /\ op # "shell" /\ stage # "output"
      /\ op' # "none"
  BY DEF Transferring, SyncOps, TypeInv, Sound
<1>2. ~(OpenShell \/ Connect \/ \E o \in SyncOps : OpenSync(o))
  BY <1>1 DEF OpenShell, OpenSync, Open, Connect
<1>3. ~(ShellTimesOut \/ Shell \/ OpenTimesOut \/ Cancel \/ Unexpected \/ ReadFails)
  BY <1>1 DEF Shell, ShellTimesOut, ShellOkay, ShellData, ShellEnds, OpenTimesOut, Cancel,
     Unexpected, ReadFails, Fails, Return
<1>4. ASSUME NEW l \in Ids PROVE ~(GuestPrints(l) \/ GuestExits(l))
  <2>1. guest[l].service # "shell"
    BY <1>1, OwnWrites
  <2> QED
    BY <2>1 DEF GuestPrints, GuestExits
<1>5. ASSUME Sync \/ GuestTakes \/ \E l \in Ids : GuestReplies(l)
      PROVE  WaitInv' /\ Left' < Left /\ Left' \in Nat /\ Left \in Nat
  <2>1. Transferring'
    OBVIOUS
  <2>2. CASE Sync
    BY <2>1, <2>2, SyncOpenedGoesOn, AckedGoesOn, ReplyGoesOn DEF Sync
  <2>3. CASE GuestTakes
    BY <2>1, <2>3, TakesAckGoesOn, TakesLastGoesOn
  <2>4. ASSUME NEW l \in Ids, GuestReplies(l)
        PROVE  WaitInv' /\ Left' < Left /\ Left' \in Nat /\ Left \in Nat
    BY <2>1, <2>4, RepliesGoesOn
  <2> QED
    BY <1>5, <2>2, <2>3, <2>4
<1>6. ASSUME UNCHANGED <<clientVars, toGuest, toHost, guest>>
      PROVE  WaitInv' /\ Left' = Left /\ Left \in Nat
  <2>1. UNCHANGED <<op, stage, request, output, nextLocal, clean, toGuest, toHost, guest>>
        /\ Local' = Local
    BY <1>6 DEF clientVars, Local
  <2>2. Left' = Left
    BY <2>1 DEF Left, Underway, Share, ToSend, Settled, Weight
  <2>3. WaitInv'
    BY <2>1 DEF WaitInv, Transferring, MayWrite, Awaited, Comes, Acks, Settled
  <2> QED
    BY <2>2, <2>3, Counted
<1>7. Ends \/ Guest => Sync \/ GuestTakes \/ \E l \in Ids : GuestReplies(l)
  <2>1. ASSUME NEW l \in Ids PROVE ~GuestPacks(l)
    BY DEF GuestPacks, Transferring
  <2> QED
    BY <1>3, <2>1 DEF Ends, Guest
<1>8. \/ Ends \/ Guest
      \/ UNCHANGED <<clientVars, toGuest, toHost, guest>>
  BY <1>2, <1>3, <1>4 DEF Next, Shell, GuestDies, vars, channelVars
<1>9. CASE Ends \/ Guest
  BY <1>5, <1>7, <1>9
<1>10. CASE UNCHANGED <<clientVars, toGuest, toHost, guest>> /\ ~(Ends \/ Guest)
  <2>1. WaitInv' /\ Left' = Left /\ Left \in Nat
    BY <1>6, <1>10
  <2> QED
    BY <1>10, <2>1
<1> QED
  BY <1>8, <1>9, <1>10

LEMMA WaitStep == IInv /\ IInv' /\ WaitInv /\ [Next]_vars => WaitInv'
<1> SUFFICES ASSUME IInv, IInv', WaitInv, [Next]_vars, Transferring' PROVE WaitInv'
  BY DEF WaitInv
<1>1. TypeInv /\ CleanInv /\ TypeInv' /\ CleanInv' /\ op' # "none" /\ op' \in SyncOps /\ clean'
  BY DEF IInv, Transferring, SyncOps
<1>2. CASE Transferring
  BY <1>1, <1>2, TransferStep
<1>3. CASE ~Transferring
  <2>1. ~Connect
    BY <1>1 DEF Connect, SyncOps
  <2>2. ASSUME NEW o \in SyncOps, OpenSync(o) PROVE WaitInv'
    BY <1>1, <2>2, OpenGoesOn DEF OpenSync
  <2>3. ~OpenShell
    BY <1>1 DEF OpenShell, Open, SyncOps
  <2>4. ASSUME ~OpenShell, ~Connect, ~\E o \in SyncOps : OpenSync(o)
        PROVE  op' \in {op, "none"} /\ (clean' => clean)
    <3>1. CASE Ends
      <4>1. CASE Shell \/ Unexpected \/ ReadFails
        BY <4>1 DEF Shell, ShellOkay, ShellData, ShellEnds, Unexpected, ReadFails, Fails, Return
      <4>2. CASE SyncOpened
        BY <4>2 DEF SyncOpened, Request
      <4>3. CASE Acked
        <5>1. \/ Fails \/ UNCHANGED <<op, clean>>
              \/ \E r \in NextRequests : Request(remote, r)
          BY <4>3, Zenon DEF Acked
        <5>2. ASSUME NEW r, Request(remote, r) PROVE UNCHANGED <<op, clean>>
          BY <5>2, Zenon DEF Request
        <5>3. CASE Fails
          BY <5>3, Zenon DEF Fails, Return
        <5> QED
          BY <5>1, <5>2, <5>3, Zenon
      <4>4. CASE Reply
        BY <4>4 DEF Reply, CloseSession, Fails, Return
      <4> QED
        BY <3>1, <4>1, <4>2, <4>3, <4>4 DEF Ends, Sync
    <3>2. CASE ShellTimesOut \/ OpenTimesOut \/ Cancel
      BY <3>2 DEF ShellTimesOut, OpenTimesOut, Cancel, Fails, Return
    <3>3. CASE UNCHANGED clientVars
      BY <3>3 DEF clientVars
    <3>4. \/ Ends \/ ShellTimesOut \/ OpenTimesOut \/ Cancel
          \/ UNCHANGED clientVars \/ \E l \in Ids : GuestPacks(l)
      BY <2>4 DEF Next, Guest, GuestTakes, GuestReplies, GuestPrints, GuestExits, GuestDies, vars
    <3>5. ASSUME NEW l \in Ids, GuestPacks(l) PROVE op' = op /\ ~clean'
      BY <3>5 DEF GuestPacks
    <3> QED
      BY <3>1, <3>2, <3>3, <3>4, <3>5
  <2> QED
    BY <1>1, <1>3, <2>1, <2>2, <2>3, <2>4 DEF Transferring, SyncOps
<1> QED
  BY <1>2, <1>3

(* A push on a clean connection, and a pull while adbd writes each sync    *)
(* message whole in a WRTE of its own, never waits for what cannot come:   *)
(* the client can read, the guest has something to take, or it may write.  *)
THEOREM TransferNeverStuck == Spec => []NeverStuck
<1>1. Init => WaitInv
  BY DEF Init, WaitInv, Transferring, SyncOps
<1>2. IInv /\ WaitInv => NeverStuck
  <2> SUFFICES ASSUME IInv, WaitInv, Transferring, toHost = <<>>, toGuest = <<>>
               PROVE  guest[Local].ready /\ guest[Local].replies # <<>>
    BY DEF NeverStuck
  <2>1. /\ op \in SyncOps /\ clean /\ TypeInv /\ Flow /\ MayWrite /\ Awaited
        /\ stage \in {"opened", "ack", "reply"}
    BY DEF Transferring, IInv, CleanInv, WaitInv, TypeInv, TypeOK, Sound, SyncOps
  <2>2. Settled /\ ~Acks /\ \A cmd, data : ~Comes(cmd, data)
    BY DEF Settled, Acks, Comes
  <2>3. stage # "opened"
    BY <2>1 DEF Flow, NotOpen, Pending, SyncOpen
  <2>4. stage = "reply" /\ request \in {"DONE", "RECV"} /\ (op = "push" => request = "DONE")
    BY <2>1, <2>2, <2>3 DEF Awaited, Flow, Exchange, PushStream
  <2> QED
    BY <2>1, <2>2, <2>4 DEF MayWrite, Awaited, SyncOps
<1> QED
  BY <1>1, <1>2, WaitStep, AdbStreamsInductive, PTL DEF Spec

(* Whatever client and guest do in such a transfer leaves less of it,      *)
(* until it returns, and nobody else's step leaves more.                   *)
THEOREM TransferGetsOn == Spec => GetsOn
<1>1. Init => WaitInv
  BY DEF Init, WaitInv, Transferring, SyncOps
<1>2. IInv /\ IInv' /\ WaitInv /\ [Next]_vars =>
          [Transferring /\ Transferring' => Left \in Nat /\ Left' \in Nat /\ Lessens]_vars
  BY TransferStep DEF IInv, Lessens
<1> QED
  BY <1>1, <1>2, WaitStep, AdbStreamsInductive, PTL DEF Spec, GetsOn

===============================================================================

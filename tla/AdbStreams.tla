------------------------------ MODULE AdbStreams ------------------------------
(***************************************************************************)
(* The operations of nux-core's ADB client on a connected transport, one   *)
(* after the other: shell_exec (capture_screenshot is the same loop),      *)
(* push_file and pull_file, each over a stream of its own, the messages in *)
(* flight both ways, and the guest's adbd.  The client takes the next      *)
(* message for its own, whichever stream it is for.                        *)
(*                                                                         *)
(* A stream has one name on both sides.  Of what StreamManager records of  *)
(* it only the local id is ever read.                                      *)
(***************************************************************************)
EXTENDS Naturals, Sequences

CONSTANTS
    MaxOps,    \* bound: operations on one connection
    MaxChunks  \* bound: pieces of an output or of a file

ASSUME BoundsAssumption == MaxOps \in Nat \ {0} /\ MaxChunks \in Nat \ {0}

Ids == 1..MaxOps
NoId == 0
SyncOps == {"push", "pull"}

VARIABLES
    op,         \* the operation in progress
    stage,      \* what it reads for
    request,    \* its last sync request
    remote,     \* its remote_id
    output,     \* the data it moved: of which stream, and which piece
    nextLocal,  \* StreamManager.next_local_id
    streams,    \* StreamManager.streams
    result,     \* how the last operation ended
    toGuest,    \* the transport
    toHost,
    torn,       \* a read of the transport was dropped inside a message
    up,         \* the guest is there
    guest,      \* adbd's streams
    clean       \* history: every operation of the connection before this one
                \* was a shell's that ended with its output, and adbd wrote
                \* each sync message whole, and alone, in a WRTE

clientVars == <<op, stage, request, remote, output, nextLocal, streams, result, clean>>
channelVars == <<toGuest, toHost, torn>>
vars == <<clientVars, channelVars, up, guest>>

Local == nextLocal - 1

Requests == {"SEND", "DATA", "DONE", "RECV"}
Replies == {"DATA", "DONE", "OKAY", "FAIL"}
Chunks == Replies \cup {"text"}

Messages ==
    [cmd : {"OPEN", "OKAY", "WRTE", "CLSE"}, from : 0..MaxOps, to : 0..MaxOps,
     data : Requests \cup Chunks \cup {"", "shell", "sync", "QUIT"},
     n : 0..MaxChunks]
Message(cmd, from, to, data, n) ==
    [cmd |-> cmd, from |-> from, to |-> to, data |-> data, n |-> n]
Ack(from, to) == Message("OKAY", from, to, "", 0)
Close(from, to) == Message("CLSE", from, to, "", 0)

NoStream == [service |-> "none", ready |-> TRUE, replies |-> <<>>, said |-> 0, fails |-> FALSE]

TypeOK ==
    /\ op \in {"none", "shell"} \cup SyncOps
    /\ stage \in {"idle", "output", "opened", "ack", "reply"}
    /\ request \in Requests \cup {"none"}
    /\ remote \in 0..MaxOps
    /\ output \in Seq(Ids \X (0..MaxChunks))
    /\ nextLocal \in 1..(MaxOps + 1)
    /\ streams \subseteq Ids
    /\ result \in [op : {"none", "shell"} \cup SyncOps, ok : BOOLEAN, clean : BOOLEAN]
    /\ toGuest \in Seq(Messages) /\ toHost \in Seq(Messages)
    /\ torn \in BOOLEAN /\ up \in BOOLEAN /\ clean \in BOOLEAN
    /\ guest \in [Ids -> [service : {"none", "shell", "sync", "closed"}, ready : BOOLEAN,
                          replies : Seq(Chunks), said : 0..MaxChunks, fails : BOOLEAN]]

Init ==
    /\ op = "none" /\ stage = "idle" /\ request = "none"
    /\ remote = NoId /\ output = <<>>
    /\ nextLocal = 1 /\ streams = {}
    /\ result = [op |-> "none", ok |-> FALSE, clean |-> TRUE]
    /\ toGuest = <<>> /\ toHost = <<>> /\ torn = FALSE
    /\ up = TRUE
    /\ guest = [l \in Ids |-> NoStream]
    /\ clean = TRUE

------------------------------------------------------------------------------
(* Helpers.                                                                *)

Incoming(cmd) == ~torn /\ toHost # <<>> /\ Head(toHost).cmd = cmd
Receive == toHost' = Tail(toHost) /\ UNCHANGED torn
Write(messages) == toGuest' = toGuest \o messages

(* The operation returns; its locals go. *)
Return(ok) ==
    /\ op' = "none" /\ stage' = "idle" /\ request' = "none" /\ remote' = NoId
    /\ result' = [op |-> op, ok |-> ok, clean |-> clean]

Remove == streams' = streams \ {Local}

(* StreamManager::open_stream and the OPEN message. *)
Open(o, what, s) ==
    /\ op = "none" /\ nextLocal <= MaxOps
    /\ op' = o /\ stage' = s /\ output' = <<>>
    /\ nextLocal' = nextLocal + 1
    /\ streams' = streams \cup {nextLocal}
    /\ Write(<<Message("OPEN", nextLocal, 0, what, 0)>>)
    /\ UNCHANGED <<request, remote, result, toHost, torn, up, guest, clean>>

(* `?' after a read, a write or a file operation: the stream stays. *)
Fails ==
    /\ Return(FALSE)
    /\ clean' = FALSE
    /\ UNCHANGED <<output, nextLocal, streams>>

------------------------------------------------------------------------------
(* shell_exec.                                                             *)

OpenShell == Open("shell", "shell", "output")

(* The first OKAY of any stream gives the remote id. *)
ShellOkay ==
    /\ stage = "output" /\ Incoming("OKAY")
    /\ remote' = IF remote = NoId THEN Head(toHost).from ELSE remote
    /\ Receive
    /\ UNCHANGED <<op, stage, request, output, nextLocal, streams, result, clean, toGuest, up, guest>>

Acknowledge == Write(<<Ack(Local, remote)>>)
ShellDataMutant ==
    /\ stage = "output" /\ Incoming("WRTE")
    /\ output' = Append(output, <<Head(toHost).from, Head(toHost).n>>)
    /\ Receive
    /\ Acknowledge
    /\ Remove
    /\ Return(TRUE)
    /\ UNCHANGED <<nextLocal, clean, up, guest>>
ShellData ==
    /\ stage = "output" /\ Incoming("WRTE")
    /\ output' = Append(output, <<Head(toHost).from, Head(toHost).n>>)
    /\ Receive
    /\ Acknowledge
    /\ UNCHANGED <<op, stage, request, remote, nextLocal, streams, result, clean, up, guest>>

ShellEnds ==
    /\ stage = "output" /\ Incoming("CLSE")
    /\ Receive
    /\ Remove
    /\ Return(TRUE)
    /\ UNCHANGED <<output, nextLocal, clean, toGuest, up, guest>>

(* The timeout may drop read_exact inside a message. *)
Drop == toHost' = toHost /\ torn' \in {torn, toHost # <<>>}

ShellTimesOut ==
    /\ stage = "output"
    /\ Drop
    /\ IF remote # NoId THEN Write(<<Close(Local, remote)>>) ELSE UNCHANGED toGuest
    /\ Remove
    /\ Return(FALSE)
    /\ clean' = FALSE
    /\ UNCHANGED <<output, nextLocal, up, guest>>

------------------------------------------------------------------------------
(* push_file and pull_file.                                                *)

OpenSync(o) == Open(o, "sync", "opened")

(* send_sync_data, up to the read of its OKAY. *)
Request(id, r) ==
    /\ stage' = "ack" /\ request' = r /\ remote' = id
    /\ Write(<<Message("WRTE", Local, id, r, 0)>>)
    /\ output' = IF r = "DATA" THEN Append(output, <<Local, Len(output) + 1>>) ELSE output
    /\ UNCHANGED <<op, nextLocal, streams, result, clean>>

SyncOpened ==
    /\ stage = "opened" /\ Incoming("OKAY")
    /\ Receive
    /\ Request(Head(toHost).from, IF op = "push" THEN "SEND" ELSE "RECV")
    /\ UNCHANGED <<up, guest>>

OpenTimesOut ==
    /\ stage = "opened"
    /\ Drop
    /\ Fails
    /\ UNCHANGED <<toGuest, up, guest>>

(* The next piece of the host's file, or its end, or an error of it. *)
NextRequests == IF Len(output) < MaxChunks THEN {"DATA", "DONE"} ELSE {"DONE"}
Acked ==
    /\ stage = "ack" /\ Incoming("OKAY")
    /\ Receive
    /\ \/ request \in {"SEND", "DATA"} /\ \E r \in NextRequests : Request(remote, r)
       \/ /\ request \in {"DONE", "RECV"}
          /\ stage' = "reply"
          /\ UNCHANGED <<op, request, remote, output, nextLocal, streams, result, clean, toGuest>>
       \/ request # "DONE" /\ Fails /\ UNCHANGED toGuest
    /\ UNCHANGED <<up, guest>>

(* SyncSession::close: QUIT and CLSE are written and no answer is read. *)
CloseSession(ok, before) ==
    /\ Write(before \o <<Message("WRTE", Local, remote, "QUIT", 0), Close(Local, remote)>>)
    /\ Remove
    /\ Return(ok)
    /\ clean' = FALSE
    /\ UNCHANGED nextLocal

(* recv_sync_data and what either operation does with the reply: one WRTE  *)
(* is taken for one sync message, that of its first bytes.  One of another *)
(* kind is an error, as is a host file that cannot be written.  A push     *)
(* takes a reply too short to name its kind, which only a text can be, for *)
(* success.                                                                *)
ReplyAckMutant == <<>>
ReplyAck == <<Ack(Local, remote)>>

AcceptedMutant(data) == TRUE
Accepted(data) == data = "OKAY"

Reply ==
    /\ stage = "reply" /\ Incoming("WRTE")
    /\ Receive
    /\ LET data == Head(toHost).data IN
       \/ /\ op = "push"
          /\ \E ok \in {Accepted(data), data = "text"} : CloseSession(ok, ReplyAck)
          /\ UNCHANGED output
       \/ /\ op = "pull" /\ data = "DATA"
          /\ output' = Append(output, <<Head(toHost).from, Head(toHost).n>>)
          /\ Write(ReplyAck)
          /\ UNCHANGED <<op, stage, request, remote, nextLocal, streams, result, clean>>
       \/ /\ op = "pull" /\ data \in {"DONE", "FAIL"}
          /\ CloseSession(data = "DONE", ReplyAck)
          /\ UNCHANGED output
       \/ op = "pull" /\ data # "FAIL" /\ Fails /\ Write(ReplyAck)
    /\ UNCHANGED <<up, guest>>

(* A message of another command than the one awaited. *)
Unexpected ==
    /\ \/ stage \in {"opened", "ack"} /\ (Incoming("WRTE") \/ Incoming("CLSE"))
       \/ stage = "reply" /\ (Incoming("OKAY") \/ Incoming("CLSE"))
    /\ Receive
    /\ Fails
    /\ UNCHANGED <<toGuest, up, guest>>

------------------------------------------------------------------------------
(* Any operation.                                                          *)

(* A read finds bytes that are no message, or the transport broken. *)
ReadFails ==
    /\ op # "none"
    /\ torn \/ ~up
    /\ Fails
    /\ UNCHANGED <<channelVars, up, guest>>

(* The caller drops its future. *)
Cancel ==
    /\ op # "none"
    /\ Drop
    /\ Fails
    /\ UNCHANGED <<toGuest, up, guest>>

(* AdbClient::connect, again: a new transport and a new StreamManager. *)
Connect ==
    /\ op = "none" /\ nextLocal > 1
    /\ nextLocal' = 1 /\ streams' = {} /\ output' = <<>>
    /\ result' = [op |-> "none", ok |-> FALSE, clean |-> TRUE]
    /\ toGuest' = <<>> /\ toHost' = <<>> /\ torn' = FALSE
    /\ up' = TRUE
    /\ guest' = [l \in Ids |-> NoStream]
    /\ clean' = TRUE
    /\ UNCHANGED <<op, stage, request, remote>>

------------------------------------------------------------------------------
(* adbd, from how the code uses it: each write on a stream is acknowledged *)
(* by the other side before the next; what is for no open stream is        *)
(* dropped.                                                                *)

Answer(messages) == toHost' = toHost \o messages
Set(l, field, value) == guest' = [guest EXCEPT ![l][field] = value]
OpenAt(l) == l \in Ids /\ guest[l].service \in {"shell", "sync"}

GuestOpens ==
    LET m == Head(toGuest) IN
    /\ m.cmd = "OPEN"
    /\ \/ Answer(<<Ack(m.from, m.from)>>) /\ Set(m.from, "service", m.data)
       \/ Answer(<<Close(0, m.from)>>) /\ UNCHANGED guest

OneMore(k) == IF k < MaxChunks THEN k + 1 ELSE k

(* It may refuse a push at once or at its end, and a pull. *)
Serve(l, data) ==
    CASE data = "SEND" -> \E f \in BOOLEAN :
                guest' = [guest EXCEPT ![l].fails = f, ![l].said = 0,
                                       ![l].replies = IF f THEN <<"FAIL">> ELSE <<>>]
      [] data = "DONE" -> \E f \in BOOLEAN :
                guest' = [guest EXCEPT ![l].fails = @ \/ f,
                                       ![l].replies = IF guest[l].fails THEN @
                                                      ELSE IF f THEN <<"FAIL">> ELSE <<"OKAY">>]
      [] data = "RECV" -> \E replies \in {<<"FAIL">>}
                    \cup {[i \in 1..(k + 1) |-> IF i <= k THEN "DATA" ELSE "DONE"] : k \in 0..MaxChunks} :
                guest' = [guest EXCEPT ![l].replies = replies, ![l].said = 0]
      [] data = "DATA" -> guest' = [guest EXCEPT ![l].said = OneMore(@)]
      [] data = "QUIT" -> Set(l, "service", "closed")
      [] OTHER -> UNCHANGED guest

GuestReads ==
    LET m == Head(toGuest) IN
    /\ m.cmd # "OPEN"
    /\ IF ~OpenAt(m.to) THEN UNCHANGED <<toHost, guest>>
       ELSE \/ m.cmd = "OKAY" /\ Set(m.to, "ready", TRUE) /\ UNCHANGED toHost
            \/ /\ m.cmd = "WRTE" /\ Serve(m.to, m.data)
               /\ Answer(<<Ack(m.to, m.from)>>
                         \o IF m.data = "QUIT" THEN <<Close(m.to, m.from)>> ELSE <<>>)
            \/ m.cmd = "CLSE" /\ Set(m.to, "service", "closed") /\ UNCHANGED toHost

GuestTakes ==
    /\ up /\ toGuest # <<>>
    /\ GuestOpens \/ GuestReads
    /\ toGuest' = Tail(toGuest)
    /\ UNCHANGED <<clientVars, torn, up>>

(* A command's output, and its end. *)
GuestPrints(l) ==
    /\ up /\ guest[l].service = "shell" /\ guest[l].ready /\ guest[l].said < MaxChunks
    /\ guest' = [guest EXCEPT ![l].said = @ + 1, ![l].ready = FALSE]
    /\ Answer(<<Message("WRTE", l, l, "text", guest[l].said + 1)>>)
    /\ UNCHANGED <<clientVars, toGuest, torn, up>>

GuestExits(l) ==
    /\ up /\ guest[l].service = "shell"
    /\ Set(l, "service", "closed")
    /\ Answer(<<Close(l, l)>>)
    /\ UNCHANGED <<clientVars, toGuest, torn, up>>

GuestReplies(l) ==
    /\ up /\ guest[l].service = "sync" /\ guest[l].ready /\ guest[l].replies # <<>>
    /\ LET data == Head(guest[l].replies)
           n == IF data = "DATA" THEN OneMore(guest[l].said) ELSE 0
       IN /\ guest' = [guest EXCEPT ![l].replies = Tail(@), ![l].ready = FALSE,
                                    ![l].said = IF data = "DATA" THEN n ELSE @]
          /\ Answer(<<Message("WRTE", l, l, data, n)>>)
    /\ UNCHANGED <<clientVars, toGuest, torn, up>>

(* The WRTEs of a stream cut it where adbd's writes do.  Messages after    *)
(* the first of a WRTE are not looked at; a header written before its data *)
(* leaves a piece that is not there, and the data as a chunk of any kind   *)
(* (bound: not DATA again, which could go on for ever).                    *)
GuestPacks(l) ==
    LET replies == guest[l].replies
        n == OneMore(guest[l].said)
    IN
    /\ up /\ guest[l].service = "sync" /\ guest[l].ready
    /\ replies # <<>> /\ Head(replies) = "DATA"
    /\ \/ \E k \in 2..Len(replies) :
              /\ Answer(<<Message("WRTE", l, l, "DATA", n)>>)
              /\ guest' = [guest EXCEPT ![l].replies = SubSeq(replies, k + 1, Len(replies)),
                                       ![l].ready = FALSE, ![l].said = n]
       \/ \E rest \in Chunks \ {"DATA"} :
              /\ Answer(<<Message("WRTE", l, l, "DATA", 0)>>)
              /\ guest' = [guest EXCEPT ![l].replies = <<rest>> \o Tail(replies),
                                       ![l].ready = FALSE]
    /\ clean' = FALSE
    /\ UNCHANGED <<op, stage, request, remote, output, nextLocal, streams, result,
                   toGuest, torn, up>>

GuestDies ==
    /\ up
    /\ up' = FALSE
    /\ UNCHANGED <<clientVars, channelVars, guest>>

------------------------------------------------------------------------------

Shell == ShellOkay \/ ShellData \/ ShellEnds
Sync == SyncOpened \/ Acked \/ Reply
Ends == Shell \/ Sync \/ Unexpected \/ ReadFails
Guest == GuestTakes \/ \E l \in Ids : GuestReplies(l) \/ GuestPacks(l)

Next ==
    \/ OpenShell \/ ShellTimesOut \/ Ends \/ OpenTimesOut \/ Cancel \/ Connect
    \/ \E o \in SyncOps : OpenSync(o)
    \/ Guest \/ GuestDies \/ \E l \in Ids : GuestPrints(l) \/ GuestExits(l)

Spec == Init /\ [][Next]_vars

(* The operation in progress is polled while it can read, and adbd answers *)
(* what it is sent; whether and when a command ends is its own affair, and *)
(* no timeout, cancellation or connection is owed.                         *)
FairSpec == Spec /\ WF_vars(Ends) /\ WF_vars(Guest)

------------------------------------------------------------------------------
(* What holds on a clean connection.                                       *)

Own(l) == [i \in 1..guest[l].said |-> <<l, i>>]

(* An operation that succeeded on a clean connection moved what its own    *)
(* stream carried, all of it, in order; and a push that succeeded is one   *)
(* the guest took.  Of a pull this is said only while adbd wrote each sync *)
(* message whole in a WRTE of its own.                                     *)
SuccessIsTrue ==
    op = "none" /\ result.ok /\ result.clean =>
        output = Own(Local) /\ (result.op = "push" => ~guest[Local].fails)

(* A clean connection has nothing in flight between operations, so the     *)
(* next one reads its own messages only.                                   *)
NothingLeftOver ==
    clean => /\ op = "none" => toHost = <<>>
             /\ \A i \in 1..Len(toHost) : toHost[i].to = Local

(* A transfer on a clean connection ends, with no timeout to end it: a     *)
(* push always, a pull unless adbd writes a sync message in two WRTEs or   *)
(* two in one, after which the code may wait for one it has been sent.     *)
TransferEnds == op \in SyncOps /\ clean ~> op = "none" \/ (op = "pull" /\ ~clean)

==============================================================================

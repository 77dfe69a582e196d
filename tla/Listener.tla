------------------------------ MODULE Listener ------------------------------
(***************************************************************************)
(* The connection between the compiler and the running game: the Listener  *)
(* of the compiler with its receive thread, the DECI2 server's thread on   *)
(* the target, and the EE's kernel loop, which runs the code it is sent    *)
(* and acknowledges it.  A message of the compiler is identified by its    *)
(* message ID, which also stands for the code it carries.                  *)
(***************************************************************************)
EXTENDS Naturals, Sequences, SequencesExt, FiniteSets

CONSTANTS
    Names,      \* names under which code may be sent
    NoName,     \* code sent from the prompt has none: "*listener*"
    MaxSends    \* bound on the number of messages the compiler sends

ASSUME ListenerAssumption == NoName \notin Names /\ MaxSends \in Nat

VARIABLES
    cpc, cmd,           \* compiler: what it is doing, and the message being sent
    connected, rcv,     \* m_connected; the receive thread
    got_ack, last_sent_id, last_recvd_id,
    filter, message_record, pending_name, load_entries,
    context,            \* debugger context: the run of the target that sent it, or 0
    conn, toTarget, toCompiler,         \* the TCP connection and its two streams
    server, deci,       \* the DECI2 server; its thread reading a message
    buffer, arrived,    \* receive_buffer; last_receive_size > 0
    proto,              \* msg_kind and msg_id of the protoBlock
    epc, outbox, after, \* EE: where it is; sends to do, and where it goes then
    function, status,   \* *listener-function*, ListenerStatus
    output, prints,     \* OutputPending and PrintPending
    MasterExit,
    boots,              \* runs of the target so far, to tell their reset messages apart
    patient, ran, result   \* history: no send has timed out; code run; last send

compilerVars == <<cpc, cmd, got_ack, last_sent_id, filter, message_record, result, patient>>
receiveVars  == <<last_recvd_id, load_entries, context>>
serverVars   == <<server, deci, buffer>>
eeVars       == <<proto, epc, outbox, after, function, status, output, prints, MasterExit, ran, boots>>
vars == <<compilerVars, receiveVars, serverVars, eeVars, connected, rcv, pending_name,
          conn, toTarget, toCompiler, arrived>>

None   == 0                    \* no function, no message
Kinds  == {"code", "test", "poke", "reset", "shutdown"}
Ids    == 1 .. MaxSends
NoMsg  == [kind |-> "none", id |-> None, name |-> NoName]
Result(msg, acked, record) == [kind |-> msg.kind, id |-> msg.id, name |-> msg.name, acked |-> acked, record |-> record]
NoResult == Result(NoMsg, FALSE, <<>>)
Ack(i) == [kind |-> "ack", id |-> i]

Init ==
    /\ cpc = "repl" /\ cmd = NoMsg /\ connected = FALSE /\ rcv = "off"
    /\ got_ack = FALSE /\ last_sent_id = 0 /\ last_recvd_id = 0
    /\ filter = FALSE /\ message_record = <<>> /\ pending_name = NoName
    /\ load_entries = [n \in Names |-> None] /\ context = 0
    /\ conn = "none" /\ toTarget = <<>> /\ toCompiler = <<>>
    /\ server = "boot" /\ deci = "waiting" /\ buffer = [head |-> NoMsg, body |-> None]
    /\ arrived = FALSE /\ proto = NoMsg /\ epc = "boot" /\ outbox = <<>> /\ after = "check"
    /\ function = None /\ status = FALSE /\ output = <<>> /\ prints = <<>>
    /\ MasterExit = 0 /\ boots = 0 /\ patient = TRUE /\ ran = <<>> /\ result = NoResult

-----------------------------------------------------------------------------
(* The compiler's main thread.                                             *)

\* connect_to_target: the old receive thread has been joined, the server has
\* sent its version.  While a server has a listener it accepts no other.
connect_to_target ==
    /\ cpc = "repl" /\ ~connected /\ rcv # "run" /\ server = "listening"
    /\ connected' = TRUE /\ rcv' = "run" /\ server' = "connected" /\ conn' = "open"
    /\ toTarget' = <<>> /\ toCompiler' = <<>> /\ context' = 0 /\ result' = NoResult
    /\ UNCHANGED <<cpc, cmd, got_ack, last_sent_id, filter, message_record, patient, last_recvd_id, load_entries,
                   eeVars, pending_name, deci, buffer, arrived>>

\* send_code, send_poke and send_reset up to send_buffer.  A test records the
\* messages the target prints.
BeginSend(kind, name) ==
    /\ cpc = "repl" /\ connected /\ last_sent_id < MaxSends
    /\ kind # "code" => name = NoName
    /\ last_sent_id' = last_sent_id + 1
    /\ cmd' = [kind |-> kind, id |-> last_sent_id + 1, name |-> name]
    /\ got_ack' = IF kind \in {"code", "test"} THEN FALSE ELSE got_ack
    /\ pending_name' = IF kind \in {"code", "test"} THEN name ELSE pending_name
    /\ filter' = (kind = "test" \/ filter)
    /\ cpc' = "write"
    /\ UNCHANGED <<receiveVars, serverVars, eeVars, message_record, result, patient, connected, rcv,
                   conn, toTarget, toCompiler, arrived>>

\* send_buffer; what is written to a connection that the target has closed is lost.
send_buffer ==
    /\ cpc = "write"
    /\ got_ack' = FALSE
    /\ toTarget' = IF conn = "open" THEN Append(toTarget, cmd) ELSE toTarget
    /\ cpc' = "wait"
    /\ UNCHANGED <<receiveVars, serverVars, eeVars, cmd, last_sent_id, filter, message_record, result,
                   patient, connected, rcv, pending_name, conn, toCompiler, arrived>>

\* The caller goes on after wait_for_ack: a test stops recording, a reset
\* disconnects.
Return(acked) ==
    /\ result' = Result(cmd, acked, IF cmd.kind = "test" THEN message_record ELSE <<>>)
    /\ message_record' = IF cmd.kind = "test" THEN <<>> ELSE message_record
    /\ filter' = (filter /\ cmd.kind # "test")
    /\ connected' = (connected /\ cmd.kind \notin {"reset", "shutdown"})
    /\ cpc' = IF cmd.kind \in {"reset", "shutdown"} THEN "disconnect" ELSE "repl"
    /\ UNCHANGED <<receiveVars, serverVars, eeVars, cmd, got_ack, last_sent_id, rcv, pending_name,
                   conn, toTarget, toCompiler, arrived>>

wait_for_ack == cpc = "wait" /\ got_ack /\ UNCHANGED patient /\ Return(TRUE)

\* wait_for_ack has polled 2000 times, or was called when no longer connected.
TimedOut == cpc = "wait" /\ ~got_ack /\ patient' = FALSE /\ Return(FALSE)

\* disconnect joins the receive thread; send_reset then closes the socket.
disconnect ==
    /\ cpc = "disconnect" /\ rcv # "run"
    /\ cpc' = "repl" /\ rcv' = "off"
    /\ conn' = IF conn = "open" THEN "closed" ELSE conn
    /\ toCompiler' = <<>>
    /\ UNCHANGED <<receiveVars, serverVars, eeVars, cmd, got_ack, last_sent_id, filter, message_record,
                   result, patient, connected, pending_name, toTarget, arrived>>

-----------------------------------------------------------------------------
(* The receive thread of the compiler.                                     *)

Received(kind) == rcv = "run" /\ connected /\ toCompiler # <<>> /\ Head(toCompiler).kind = kind

\* receive_func, MSG_ACK.
receive_ack ==
    /\ Received("ack")
    /\ got_ack' = TRUE /\ last_recvd_id' = Head(toCompiler).id
    /\ toCompiler' = Tail(toCompiler)
    /\ UNCHANGED <<serverVars, eeVars, cpc, cmd, last_sent_id, filter, message_record, result, patient,
                   load_entries, context, connected, rcv, pending_name, conn, toTarget, arrived>>

\* receive_func, MSG_PRINT.
receive_print ==
    /\ Received("print")
    /\ message_record' = IF filter THEN message_record \o Head(toCompiler).lines ELSE message_record
    /\ toCompiler' = Tail(toCompiler)
    /\ UNCHANGED <<receiveVars, serverVars, eeVars, cpc, cmd, got_ack, last_sent_id, filter, result,
                   patient, connected, rcv, pending_name, conn, toTarget, arrived>>

\* add_load of every line in turn: the first takes the pending name.
add_load(lines) ==
    LET loads == {i \in DOMAIN lines : lines[i].kind = "load"}
        first == CHOOSE i \in loads : \A j \in loads : i <= j
    IN  IF pending_name # NoName /\ loads # {}
        THEN [load_entries EXCEPT ![pending_name] = lines[first].of]
        ELSE load_entries

\* receive_func, MSG_OUTPUT: handle_output_message.
receive_output ==
    /\ Received("output")
    /\ LET lines == Head(toCompiler).lines
       IN  /\ context' = IF lines[1].kind = "reset" THEN lines[1].of ELSE context
           /\ load_entries' = add_load(lines)
           /\ pending_name' = IF \E i \in DOMAIN lines : lines[i].kind = "load" THEN NoName ELSE pending_name
    /\ toCompiler' = Tail(toCompiler)
    /\ UNCHANGED <<compilerVars, serverVars, eeVars, last_recvd_id, connected, rcv, conn, toTarget, arrived>>

\* The thread returns: the target has closed the connection, the compiler wants
\* to disconnect, or the rest of an output or a print comes too late (a read
\* that times out in such a message disconnects; in an acknowledgement it does not).
receive_end ==
    /\ rcv = "run"
    /\ ~connected \/ (conn = "closed" /\ toCompiler = <<>>) \/ Received("print") \/ Received("output")
    /\ connected' = FALSE /\ rcv' = "returned"
    /\ UNCHANGED <<compilerVars, receiveVars, serverVars, eeVars, pending_name, conn, toTarget, toCompiler, arrived>>

-----------------------------------------------------------------------------
(* The DECI2 server's thread; deci_mutex is held while a message is read.  *)

\* Deci2Server::run up to the first part of a message, GoalProtoHandler READ.
ReadHead ==
    /\ server = "connected" /\ deci = "waiting" /\ toTarget # <<>> /\ epc \notin {"boot", "exit"}
    /\ buffer' = [buffer EXCEPT !.head = Head(toTarget)]
    /\ deci' = "reading"
    /\ UNCHANGED <<compilerVars, receiveVars, eeVars, server, connected, rcv, pending_name, conn, toTarget,
                   toCompiler, arrived>>

\* The rest of the message, and READDONE.
ReadDone ==
    /\ deci = "reading"
    /\ buffer' = [buffer EXCEPT !.body = Head(toTarget).id]
    /\ arrived' = TRUE
    /\ toTarget' = Tail(toTarget)
    /\ deci' = "waiting"
    /\ UNCHANGED <<compilerVars, receiveVars, eeVars, server, connected, rcv, pending_name, conn, toCompiler>>

-----------------------------------------------------------------------------
(* The EE: KernelCheckAndDispatch.                                         *)

eeKeeps == UNCHANGED <<compilerVars, receiveVars, deci, connected, rcv, pending_name, toTarget>>

\* InitMachine: the protocol is opened and the server starts to listen; the
\* game goes on booting and leaves the reset message in the output buffer.
InitGoalProto ==
    /\ epc = "boot" /\ server = "boot"
    /\ server' = "listening" /\ epc' = "booting"
    /\ eeKeeps
    /\ UNCHANGED <<buffer, conn, toCompiler, arrived, proto, outbox, after, function, status, output, prints, MasterExit, ran, boots>>

\* Mutant: no reset message is left for the compiler.
reset_output_Silent ==
    /\ epc = "booting"
    /\ boots' = boots + 1 /\ epc' = "check"
    /\ eeKeeps
    /\ UNCHANGED <<server, buffer, conn, toCompiler, arrived, proto, outbox, after, function, status, output, prints, MasterExit, ran>>

reset_output ==
    /\ epc = "booting"
    /\ output' = <<[kind |-> "reset", of |-> boots + 1]>> /\ boots' = boots + 1 /\ epc' = "check"
    /\ eeKeeps
    /\ UNCHANGED <<server, buffer, conn, toCompiler, arrived, proto, outbox, after, function, status, prints, MasterExit, ran>>

\* ReceiveToBuffer finds a message and copies its kind and ID ...
ReceiveToBuffer ==
    /\ epc = "check" /\ arrived
    /\ proto' = buffer.head /\ epc' = "take"
    /\ eeKeeps
    /\ UNCHANGED <<server, buffer, conn, toCompiler, arrived, outbox, after, function, status, output, prints, MasterExit, ran, boots>>

\* ... and then marks it as received.
MarkReceived ==
    /\ epc = "take"
    /\ arrived' = FALSE /\ epc' = "process"
    /\ eeKeeps
    /\ UNCHANGED <<server, buffer, conn, toCompiler, proto, outbox, after, function, status, output, prints, MasterExit, ran, boots>>

NoMessage ==
    /\ epc = "check" /\ ~arrived
    /\ epc' = "dispatch"
    /\ eeKeeps
    /\ UNCHANGED <<server, buffer, conn, toCompiler, arrived, proto, outbox, after, function, status, output, prints, MasterExit, ran, boots>>

\* What ClearPending sends: the output and then what was printed.
ClearPending(out, said) ==
    (IF out = <<>> THEN <<>> ELSE <<[kind |-> "output", lines |-> out]>>)
    \o (IF said = <<>> THEN <<>> ELSE <<[kind |-> "print", lines |-> said]>>)

\* Mutant: the acknowledgement overtakes what was printed.
SendAck_First(flush, id) == <<Ack(id)>> \o flush

\* SendAck follows what ClearPending has sent.
SendAck(flush, id) == Append(flush, Ack(id))

\* ProcessListenerMessage, all but LTT_MSG_CODE: flush or exit, then SendAck.
ProcessListenerMessage ==
    /\ epc = "process" /\ proto.kind \in {"poke", "reset", "shutdown"}
    /\ status' = TRUE
    /\ LET flush == IF proto.kind = "poke" THEN ClearPending(output, prints) ELSE <<>>
       IN  outbox' = SendAck(flush, proto.id)
    /\ output' = IF proto.kind = "poke" THEN <<>> ELSE output
    /\ prints' = IF proto.kind = "poke" THEN <<>> ELSE prints
    /\ MasterExit' = CASE proto.kind = "reset" -> 1 [] proto.kind = "shutdown" -> 2 [] OTHER -> MasterExit
    /\ epc' = "send" /\ after' = "dispatch"
    /\ eeKeeps
    /\ UNCHANGED <<server, buffer, conn, toCompiler, arrived, proto, function, ran, boots>>

\* LTT_MSG_CODE: the code is copied out of the buffer and linked, which is
\* reported with the next output; it is acknowledged when it has run.
LinkCode ==
    /\ epc = "process" /\ proto.kind \in {"code", "test"}
    /\ status' = TRUE
    /\ function' = buffer.body
    /\ output' = Append(output, [kind |-> "load", of |-> buffer.body])
    /\ epc' = "dispatch"
    /\ eeKeeps
    /\ UNCHANGED <<server, buffer, conn, toCompiler, arrived, proto, outbox, after, prints, MasterExit, ran, boots>>

\* The kernel dispatcher runs the listener function, which prints, and may end
\* the game (KernelShutdown); ClearPending; SendAck if the function has run.
Dispatch(quit) ==
    /\ epc = "dispatch"
    /\ LET runs  == function # None
           said  == IF runs THEN Append(prints, function) ELSE prints
           flush == IF status THEN ClearPending(output, said) ELSE <<>>
       IN  /\ quit => runs
           /\ ran' = IF runs THEN Append(ran, function) ELSE ran
           /\ outbox' = IF runs THEN SendAck(flush, proto.id) ELSE flush
           /\ output' = IF status THEN <<>> ELSE output
           /\ prints' = IF status THEN <<>> ELSE said
    /\ function' = None
    /\ MasterExit' = IF quit THEN 2 ELSE MasterExit
    /\ epc' = "send" /\ after' = IF MasterExit' = 0 THEN "check" ELSE "exit"
    /\ eeKeeps
    /\ UNCHANGED <<server, buffer, conn, toCompiler, arrived, proto, status, boots>>

\* SendFromBufferD and send_data: each message is sent whole, under deci_mutex.
SendFromBufferD ==
    /\ epc = "send" /\ outbox # <<>> /\ deci = "waiting"
    /\ toCompiler' = IF conn = "open" THEN Append(toCompiler, Head(outbox)) ELSE toCompiler
    /\ outbox' = Tail(outbox)
    /\ eeKeeps
    /\ UNCHANGED <<server, buffer, conn, arrived, proto, epc, after, function, status, output, prints, MasterExit, ran, boots>>

AllSent ==
    /\ epc = "send" /\ outbox = <<>>
    /\ epc' = after
    /\ eeKeeps
    /\ UNCHANGED <<server, buffer, conn, toCompiler, arrived, proto, outbox, after, function, status, output, prints, MasterExit, ran, boots>>

\* Mutant: the test of the exit code is inverted.
ExitTo_Inverted(code) == IF code = 2 THEN "boot" ELSE "off"

\* main: a new runtime unless the exit code is 2.
ExitTo(code) == IF code = 2 THEN "off" ELSE "boot"

\* The kernel loop has ended: the machine is shut down, the server's thread
\* returns and closes its sockets, and main goes on.  All globals are new.
Restart ==
    /\ epc = "exit"
    /\ epc' = ExitTo(MasterExit)
    /\ server' = epc'
    /\ conn' = IF conn = "open" THEN "closed" ELSE conn
    /\ deci' = "waiting" /\ toTarget' = <<>>
    /\ buffer' = [head |-> NoMsg, body |-> None] /\ arrived' = FALSE /\ proto' = NoMsg
    /\ function' = None /\ status' = FALSE /\ output' = <<>> /\ prints' = <<>> /\ MasterExit' = 0
    /\ UNCHANGED <<compilerVars, receiveVars, connected, rcv, pending_name, toCompiler, outbox, after, ran, boots>>

-----------------------------------------------------------------------------
User     == \E kind \in Kinds, name \in Names \cup {NoName} : BeginSend(kind, name)
Compiler == connect_to_target \/ send_buffer \/ wait_for_ack \/ TimedOut \/ disconnect
Receive  == receive_ack \/ receive_print \/ receive_output \/ receive_end
Deci2    == ReadHead \/ ReadDone
EE       == \/ InitGoalProto \/ reset_output \/ ReceiveToBuffer \/ MarkReceived \/ NoMessage
            \/ ProcessListenerMessage \/ LinkCode \/ SendFromBufferD \/ AllSent \/ Restart
            \/ \E quit \in BOOLEAN : Dispatch(quit)

Next == User \/ Compiler \/ Receive \/ Deci2 \/ EE
Spec == Init /\ [][Next]_vars

\* Every thread runs.  Users type when they like.
FairSpec == Spec /\ WF_vars(Compiler) /\ WF_vars(Receive) /\ WF_vars(Deci2) /\ WF_vars(EE)

-----------------------------------------------------------------------------
Lines == [kind : {"reset", "load"}, of : Nat]
TypeOK ==
    /\ cpc \in {"repl", "write", "wait", "disconnect"} /\ rcv \in {"off", "run", "returned"}
    /\ conn \in {"none", "open", "closed"} /\ server \in {"boot", "listening", "connected", "off"}
    /\ deci \in {"waiting", "reading"} /\ MasterExit \in 0 .. 2
    /\ epc \in {"boot", "booting", "check", "take", "process", "dispatch", "send", "exit", "off"}
    /\ last_sent_id \in 0 .. MaxSends /\ function \in 0 .. MaxSends
    /\ output \in Seq(Lines) /\ prints \in Seq(Ids) /\ ran \in Seq(Ids)
    /\ load_entries \in [Names -> 0 .. MaxSends] /\ pending_name \in Names \cup {NoName}

\* The rest is about a compiler that waits for an acknowledgement before it
\* sends the next message, as the warning in receive_func asks it to.
Returned(kinds) == patient /\ cpc = "repl" /\ result.kind \in kinds

\* Code that has been acknowledged has run, all of it and only once: the
\* buffer that the server's thread fills and the kernel loop reads is never
\* taken half written, twice, or for another message.
AckedCodeHasRun ==
    /\ Returned({"code", "test"}) => result.acked /\ ran # <<>> /\ Last(ran) = result.id
    /\ patient => \A i, j \in DOMAIN ran : i < j => ran[i] < ran[j]

\* A test gets exactly what its code has printed: prints are flushed before
\* the acknowledgement and recorded before it is seen.
TestSeesItsPrints == Returned({"test"}) => result.record = <<result.id>>

\* The load that the target reports as *listener* is entered under the name
\* its code was sent with, although name and report travel separately.
LoadUnderItsName == Returned({"code"}) /\ result.name # NoName => load_entries[result.name] = result.id

\* The debugger's context is that of the run of the target the compiler talks
\* to, from the first acknowledged code or poke on.
ContextIsCurrent == Returned({"code", "test", "poke"}) /\ conn = "open" => context = boots

\* What the comment on send_code says, with no condition on the compiler:
\* "Returns once the target acks the code".
ReturnsOnceAcked == cpc = "repl" /\ result.kind \in {"code", "test"} /\ result.acked => result.id \in Range(ran)

\* A target that is told to reset comes up again and listens, unless the code
\* it ran before has ended it.
ResetRestarts ==
    (cpc = "wait" /\ cmd.kind = "reset" /\ patient /\ conn = "open" /\ MasterExit = 0)
        ~> (server = "listening")

\* An acknowledgement, the prints before it and the load report belong to the
\* code that they are taken for.
AnswersMatch == TypeOK /\ AckedCodeHasRun /\ TestSeesItsPrints /\ LoadUnderItsName
=============================================================================

-------------------------- MODULE Listener_proofs --------------------------
(***************************************************************************)
(* The listener connection, for any names and any number of messages: what *)
(* a compiler that waits for its acknowledgements is told belongs to what  *)
(* it has sent (AnswersMatch), and its debugger's context to the run of    *)
(* the target it talks to (ContextIsCurrent).  The inductive invariant     *)
(* follows the one message that is under way: in the socket, the receive   *)
(* buffer, the protocol block, linked, answered (and then what is left of  *)
(* its answers, in their order), or lost with the target.                  *)
(***************************************************************************)
EXTENDS Listener, SequenceTheorems, WellFoundedInduction, TLAPS

\* What travels from the target to the compiler.
Reset(n)      == [kind |-> "reset", of |-> n]
Load(n)       == [kind |-> "load", of |-> n]
Output(lines) == [kind |-> "output", lines |-> lines]
Printed(n)    == [kind |-> "print", lines |-> <<n>>]

Messages == [kind : Kinds, id : Ids, name : Names \cup {NoName}]
Reports  == [kind : {"reset"}, of : Nat] \cup [kind : {"load"}, of : 0 .. MaxSends]
Answers  == [kind : {"ack"}, id : 0 .. MaxSends] \cup [kind : {"print"}, lines : Seq(Ids)]
            \cup [kind : {"output"}, lines : Seq(Reports)]

\* The types of all that the type invariant relies on; they hold for an
\* impatient compiler as well.
CompilerTyped ==
    /\ cpc \in {"repl", "write", "wait", "disconnect"} /\ rcv \in {"off", "run", "returned"}
    /\ cmd \in Messages \cup {NoMsg} /\ last_sent_id \in 0 .. MaxSends
    /\ cpc # "repl" => cmd \in Messages /\ cmd.id = last_sent_id
    /\ connected \in BOOLEAN /\ got_ack \in BOOLEAN /\ filter \in BOOLEAN /\ patient \in BOOLEAN
    /\ load_entries \in [Names -> 0 .. MaxSends] /\ pending_name \in Names \cup {NoName}
ChannelTyped ==
    /\ conn \in {"none", "open", "closed"} /\ server \in {"boot", "listening", "connected", "off"}
    /\ deci \in {"waiting", "reading"} /\ arrived \in BOOLEAN
    /\ toTarget \in Seq(Messages) /\ toCompiler \in Seq(Answers) /\ outbox \in Seq(Answers)
    /\ buffer \in [head : Messages \cup {NoMsg}, body : 0 .. MaxSends]
    /\ deci = "reading" => toTarget # <<>> /\ server = "connected"
EETyped ==
    /\ epc \in {"boot", "booting", "check", "take", "process", "dispatch", "send", "exit", "off"}
    /\ after \in {"check", "dispatch", "exit"} /\ status \in BOOLEAN
    /\ proto \in Messages \cup {NoMsg} /\ function \in 0 .. MaxSends /\ MasterExit \in 0 .. 2
    /\ output \in Seq(Reports) /\ prints \in Seq(Ids) /\ ran \in Seq(Ids) /\ boots \in Nat
Typed == CompilerTyped /\ ChannelTyped /\ EETyped

\* All that is on its way to the compiler.
Pipe   == toCompiler \o outbox
Runs   == cmd.kind \in {"code", "test"}
Resets == cmd.kind \in {"reset", "shutdown"}

\* The target by itself.
Machine ==
    /\ prints = <<>>
    /\ epc # "send" => outbox = <<>>
    /\ ~status => outbox = <<>>
    /\ epc \in {"boot", "booting", "off"} => ~status
    /\ epc \in {"boot", "off"} => server = epc
    /\ server \in {"boot", "off"} => epc = server
    /\ server # "connected" => toTarget = <<>> /\ deci = "waiting"
    /\ server = "listening" => ~status
    /\ function # None => status
    /\ arrived \/ epc \in {"take", "process"} => server = "connected"
    /\ conn = "open" => server = "connected"
    /\ epc \in {"boot", "booting", "check", "take", "process", "off"} => MasterExit = 0
    /\ epc = "send" /\ after = "check" => MasterExit = 0
    /\ deci = "reading" => buffer.head = Head(toTarget)

\* The output buffer holds the reset message until the first message of the
\* compiler has been processed, and nothing after it.
Fresh == output = IF status \/ epc \in {"boot", "booting", "off"} THEN <<>> ELSE <<Reset(boots)>>

\* The first message was a reset: what is left in the output is sent after the
\* acknowledgement.
Leaving == /\ status /\ MasterExit # 0 /\ output = <<Reset(boots)>>
           /\ epc = "dispatch" \/ (epc = "send" /\ after = "dispatch")

Known  == conn = "open" /\ status => context = boots
NoneIn == toTarget = <<>> /\ ~arrived /\ function = None /\ epc \notin {"take", "process"}
Before == \A i \in DOMAIN ran : ran[i] < last_sent_id

\* Nothing is under way; or only what a reset has left.
Still    == NoneIn /\ Pipe = <<>> /\ Fresh
Trailing == /\ NoneIn /\ Resets
            /\ (Pipe = <<>> /\ Leaving) \/ (Fresh /\ \E n \in Nat : Pipe = <<Output(<<Reset(n)>>)>>)

\* The message is on its way: in the socket, in the buffer, taken.
InSocket == toTarget = <<cmd>> /\ ~arrived /\ function = None /\ epc \notin {"take", "process"}
InBuffer == /\ toTarget = <<>> /\ arrived /\ buffer.head = cmd /\ buffer.body = cmd.id /\ function = None
            /\ epc # "process" /\ (epc = "take" => proto = cmd)
InProto  == /\ toTarget = <<>> /\ ~arrived /\ epc = "process" /\ proto = cmd /\ buffer.body = cmd.id
            /\ function = None
Unread   == /\ InSocket \/ InBuffer \/ InProto
            /\ conn = "open" /\ Pipe = <<>> /\ Fresh /\ Known /\ Before
            /\ Runs => pending_name = cmd.name
            /\ message_record = <<>>

\* Its code has been linked and is about to run.
Linked == /\ epc = "dispatch" /\ function = cmd.id /\ function # None /\ proto = cmd /\ Runs /\ status
          /\ output = <<Reset(boots), Load(cmd.id)>> \/ (output = <<Load(cmd.id)>> /\ context = boots)
          /\ toTarget = <<>> /\ ~arrived /\ conn = "open" /\ Pipe = <<>> /\ Before
          /\ pending_name = cmd.name /\ message_record = <<>> /\ MasterExit = 0

HasRun   == Runs => ran # <<>> /\ ran[Len(ran)] = cmd.id
Recorded == message_record = IF cmd.kind = "test" THEN <<cmd.id>> ELSE <<>>
Entered  == cmd.kind = "code" /\ cmd.name # NoName => load_entries[cmd.name] = cmd.id

\* The answers are on their way, in this order.
OutputFirst ==
    /\ Runs /\ Fresh /\ pending_name = cmd.name /\ message_record = <<>>
    /\ \/ Pipe = <<Output(<<Load(cmd.id)>>), Printed(cmd.id), Ack(cmd.id)>> /\ Known
       \/ \E n \in Nat : /\ Pipe = <<Output(<<Reset(n), Load(cmd.id)>>), Printed(cmd.id), Ack(cmd.id)>>
                         /\ conn = "open" => n = boots
PrintFirst == Runs /\ Fresh /\ Known /\ Entered /\ message_record = <<>>
              /\ Pipe = <<Printed(cmd.id), Ack(cmd.id)>>
PokeFirst  == /\ cmd.kind = "poke" /\ Fresh /\ message_record = <<>>
              /\ \E n \in Nat : Pipe = <<Output(<<Reset(n)>>), Ack(cmd.id)>> /\ (conn = "open" => n = boots)
AckFirst   == ~Resets /\ Fresh /\ Known /\ Entered /\ Recorded /\ Pipe = <<Ack(cmd.id)>>
ResetFirst == /\ Resets /\ message_record = <<>>
              /\ \/ Pipe = <<Ack(cmd.id)>> /\ (Fresh \/ (Leaving /\ conn = "open"))
                 \/ Fresh /\ \E n \in Nat : Pipe = <<Ack(cmd.id), Output(<<Reset(n)>>)>>
Answering ==
    /\ NoneIn /\ HasRun
    /\ outbox # <<>> => conn = "open"
    /\ conn = "open" => status
    /\ OutputFirst \/ PrintFirst \/ PokeFirst \/ AckFirst \/ ResetFirst

\* The target has gone without an answer.
Lost == conn # "open" /\ NoneIn /\ Pipe = <<>> /\ Fresh /\ message_record = <<>>

Answered == HasRun /\ Entered /\ (conn = "open" => status) /\ (Resets \/ Known)

\* What the compiler's main thread may rely on, by what it is doing.
AtRepl ==
    /\ Still \/ (Trailing /\ ~connected)
    /\ connected => Known
    /\ message_record = <<>>
    /\ result = NoResult \/ (Answered /\ result = Result(cmd, TRUE, IF cmd.kind = "test" THEN <<cmd.id>> ELSE <<>>))
AtWrite == Still /\ Known /\ message_record = <<>> /\ Before /\ (Runs => pending_name = cmd.name)
AtWait  == IF got_ack THEN (Still \/ Trailing) /\ Answered /\ Recorded
                      ELSE Unread \/ Linked \/ Answering \/ Lost
AtDisconnect == (Still \/ Trailing) /\ Answered /\ Resets /\ message_record = <<>> /\ ~connected
                /\ result = Result(cmd, TRUE, <<>>)

Phase ==
    /\ cpc = "repl" => AtRepl
    /\ cpc = "write" => AtWrite
    /\ cpc = "wait" => AtWait
    /\ cpc = "disconnect" => AtDisconnect
    /\ filter <=> (cmd.kind = "test" /\ cpc \in {"write", "wait"})

Increasing == /\ \A i \in DOMAIN ran : ran[i] <= last_sent_id
              /\ \A i, j \in DOMAIN ran : i < j => ran[i] < ran[j]

ListenerInv == Typed /\ (patient => Machine /\ Phase /\ Increasing)

-----------------------------------------------------------------------------
\* Sending the first element of one sequence to the other leaves both together the same.
LEMMA ConcatStep ==
    ASSUME NEW S, NEW t \in Seq(S), NEW o \in Seq(S), o # <<>>
    PROVE  Append(t, Head(o)) \o Tail(o) = t \o o
  OBVIOUS

\* Taking from the first of two sequences.
LEMMA ConcatHead ==
    ASSUME NEW S, NEW t \in Seq(S), NEW o \in Seq(S), t # <<>>
    PROVE  t \o o # <<>> /\ Head(t \o o) = Head(t) /\ Tail(t \o o) = Tail(t) \o o
  OBVIOUS

\* Nothing added.
LEMMA ConcatNone ==
    ASSUME NEW S, NEW t \in Seq(S), NEW o \in Seq(S)
    PROVE  /\ t \o <<>> = t /\ <<>> \o t = t /\ t \o o \in Seq(S)
           /\ t \o o = <<>> => t = <<>> /\ o = <<>>
  OBVIOUS

\* One element is in one of the two.
LEMMA ConcatOne ==
    ASSUME NEW S, NEW t \in Seq(S), NEW o \in Seq(S), NEW x, t \o o = <<x>>, o # <<>>
    PROVE  t = <<>> /\ Tail(o) = <<>>
<1>1. Len(t \o o) = Len(t) + Len(o) BY ConcatProperties
<1>2. Len(<<x>>) = 1 OBVIOUS
<1>3. Len(t) \in Nat /\ Len(o) \in Nat /\ Len(o) # 0 OBVIOUS
<1>a. Len(t \o o) = 1 BY <1>2
<1>b. PICK n \in Nat, m \in Nat : n = Len(t) /\ m = Len(o) BY <1>3
<1>c. n + m = 1 /\ m # 0 BY <1>1, <1>3, <1>a, <1>b
<1>4. n = 0 /\ m = 1 BY <1>c
<1> QED BY <1>4, <1>b

\* Short sequences, element by element.
LEMMA Tuples ==
    ASSUME NEW a, NEW b, NEW c
    PROVE  /\ Tail(<<a, b, c>>) = <<b, c>> /\ Tail(<<a, b>>) = <<b>> /\ Tail(<<a>>) = <<>>
           /\ Head(<<a, b, c>>) = a /\ Head(<<a, b>>) = a /\ Head(<<a>>) = a
           /\ Append(<<>>, a) = <<a>> /\ Append(<<a>>, b) = <<a, b>> /\ Append(<<a, b>>, c) = <<a, b, c>>
           /\ <<a>> \o <<b>> = <<a, b>> /\ <<a>> \o <<>> = <<a>> /\ <<>> \o <<a>> = <<a>>
           /\ <<a, b, c>> # <<>> /\ <<a, b>> # <<>> /\ <<a>> # <<>>
<1>1. Tail(<<a, b, c>>) = <<b, c>> /\ Tail(<<a, b>>) = <<b>> /\ Tail(<<a>>) = <<>> OBVIOUS
<1>2. Head(<<a, b, c>>) = a /\ Head(<<a, b>>) = a /\ Head(<<a>>) = a OBVIOUS
<1>3. Append(<<>>, a) = <<a>> OBVIOUS
<1> DEFINE S == {a, b, c}
<1>a. <<a>> \in Seq(S) /\ <<b>> \in Seq(S) /\ <<a, b>> \in Seq(S) /\ <<a, b, c>> \in Seq(S)
                          /\ b \in S /\ c \in S OBVIOUS
<1>4. Append(<<a>>, b) = <<a, b>>
  <2>1. PICK x : x = Append(<<a>>, b) OBVIOUS
  <2>2. x \in Seq(S) /\ Len(x) = 2 /\ x[1] = a /\ x[2] = b BY <1>a, <2>1, AppendProperties
  <2>3. \A i \in 1 .. Len(x) : x[i] = <<a, b>>[i] BY <2>2
  <2> QED BY <1>a, <2>1, <2>2, <2>3, SeqEqual
<1>5. Append(<<a, b>>, c) = <<a, b, c>>
  <2>1. PICK x : x = Append(<<a, b>>, c) OBVIOUS
  <2>2. x \in Seq(S) /\ Len(x) = 3 /\ x[1] = a /\ x[2] = b /\ x[3] = c BY <1>a, <2>1, AppendProperties
  <2>3. \A i \in 1 .. Len(x) : x[i] = <<a, b, c>>[i] BY <2>2
  <2> QED BY <1>a, <2>1, <2>2, <2>3, SeqEqual
<1>6. <<a>> \o <<b>> = <<a, b>>
  BY <1>4, <1>a, AppendIsConcat
<1>7. <<a>> \o <<>> = <<a>> /\ <<>> \o <<a>> = <<a>> OBVIOUS
<1>8. <<a, b, c>> # <<>> /\ <<a, b>> # <<>> /\ <<a>> # <<>> OBVIOUS
<1> QED BY <1>1, <1>2, <1>3, <1>4, <1>5, <1>6, <1>7, <1>8

\* A set of numbers has a least one: the CHOOSE of add_load finds an index.
LEMMA LeastOf ==
    ASSUME NEW T \in SUBSET Nat, T # {}
    PROVE  \E i \in T : \A j \in T : i <= j
<1>1. PICK i \in T : \A j \in T : ~ (<<j, i>> \in OpToRel(<, Nat))
  BY WFMin, NatLessThanWellFounded
<1>2. \A j \in Nat : j < i => <<j, i>> \in OpToRel(<, Nat)
  BY Zenon DEF OpToRel
<1>3. \A j \in T : ~ (j < i) BY <1>1, <1>2
<1> QED BY <1>3

-----------------------------------------------------------------------------
(* Types.                                                                  *)

\* The types hold at first ...
LEMMA InitTyped == Init => Typed
<1> SUFFICES ASSUME Init PROVE Typed OBVIOUS
<1>a. \A S : <<>> \in Seq(S) OBVIOUS
<1>b. 0 \in 0 .. MaxSends BY ListenerAssumption
<1>1. CompilerTyped
  <2>1. connected \in BOOLEAN /\ got_ack \in BOOLEAN /\ filter \in BOOLEAN /\ patient \in BOOLEAN BY
    DEF Init
  <2>2. load_entries \in [Names -> 0 .. MaxSends] BY <1>b DEF Init, None
  <2> QED BY <1>b, <2>1, <2>2 DEF Init, CompilerTyped
<1>2. ChannelTyped
  <2>1. arrived \in BOOLEAN BY DEF Init
  <2>2. buffer \in [head : Messages \cup {NoMsg}, body : 0 .. MaxSends] BY <1>b DEF Init, None
  <2> QED BY <1>a, <2>1, <2>2 DEF Init, ChannelTyped
<1>3. EETyped
  <2>1. status \in BOOLEAN BY DEF Init
  <2> QED BY <1>a, <1>b, <2>1 DEF Init, EETyped, None
<1> QED BY <1>1, <1>2, <1>3 DEF Typed

\* ... and after the steps of the compiler's main thread,
LEMMA CompilerTypes ==
    ASSUME Typed, User \/ Compiler
    PROVE  Typed'
<1> USE ListenerAssumption
<1>1. ASSUME NEW kind \in Kinds, NEW name \in Names \cup {NoName}, BeginSend(kind, name) PROVE Typed'
  <2>1. last_sent_id + 1 \in Ids /\ last_sent_id + 1 \in 0 .. MaxSends BY <1>1
    DEF BeginSend, Typed, CompilerTyped, Ids
  <2>2. cmd' \in Messages /\ cmd'.id = last_sent_id' BY <1>1, <2>1 DEF BeginSend, Messages
  <2>3. CompilerTyped' BY <1>1, <2>1, <2>2 DEF BeginSend, Typed, CompilerTyped, receiveVars
  <2> QED BY <1>1, <2>3 DEF BeginSend, Typed, ChannelTyped, EETyped, serverVars, eeVars
<1>2. ASSUME connect_to_target PROVE Typed'
  BY <1>2 DEF connect_to_target, Typed, CompilerTyped, ChannelTyped, EETyped, eeVars
<1>3. ASSUME send_buffer PROVE Typed'
  <2>1. toTarget' \in Seq(Messages) /\ (toTarget # <<>> => toTarget' # <<>>)
    <3>1. cmd \in Messages /\ toTarget \in Seq(Messages) BY <1>3
      DEF send_buffer, Typed, CompilerTyped, ChannelTyped
    <3>2. toTarget' = Append(toTarget, cmd) \/ toTarget' = toTarget BY <1>3 DEF send_buffer
    <3> QED BY <3>1, <3>2
  <2>2. CompilerTyped' BY <1>3 DEF send_buffer, Typed, CompilerTyped, receiveVars
  <2>3. ChannelTyped' BY <1>3, <2>1 DEF send_buffer, Typed, ChannelTyped, eeVars, serverVars
  <2> QED BY <1>3, <2>2, <2>3 DEF send_buffer, Typed, EETyped, eeVars
<1>4. ASSUME wait_for_ack \/ TimedOut PROVE Typed'
  <2>1. PICK acked : Return(acked) /\ cpc = "wait" /\ (patient' = patient \/ patient' = FALSE)
    BY <1>4 DEF wait_for_ack, TimedOut
  <2>2. CompilerTyped'
    <3>1. connected' \in BOOLEAN /\ filter' \in BOOLEAN BY <2>1 DEF Return
    <3>2. patient' \in BOOLEAN BY <2>1 DEF Typed, CompilerTyped
    <3> QED BY <2>1, <3>1, <3>2 DEF Return, Typed, CompilerTyped, receiveVars
  <2>3. ChannelTyped' BY <2>1 DEF Return, Typed, ChannelTyped, eeVars, serverVars
  <2> QED BY <2>1, <2>2, <2>3 DEF Return, Typed, EETyped, eeVars
<1>5. ASSUME disconnect PROVE Typed'
  BY <1>5 DEF disconnect, Typed, CompilerTyped, ChannelTyped, EETyped, eeVars, receiveVars, serverVars
<1> QED BY <1>1, <1>2, <1>3, <1>4, <1>5 DEF User, Compiler

\* of its receive thread,
LEMMA ReceiveTypes ==
    ASSUME Typed, Receive
    PROVE  Typed'
<1>1. ASSUME receive_ack \/ receive_print \/ receive_end PROVE Typed'
  <2>1. toCompiler' \in Seq(Answers)
    <3>1. toCompiler' = toCompiler \/ (toCompiler # <<>> /\ toCompiler' = Tail(toCompiler))
      BY <1>1 DEF receive_ack, receive_print, receive_end, Received
    <3>2. toCompiler \in Seq(Answers) BY DEF Typed, ChannelTyped
    <3> QED BY <3>1, <3>2
  <2>2. ChannelTyped'
    BY <1>1, <2>1 DEF receive_ack, receive_print, receive_end, Typed, ChannelTyped, eeVars, serverVars
  <2>3. EETyped' BY <1>1 DEF receive_ack, receive_print, receive_end, Typed, EETyped, eeVars
  <2>4. CompilerTyped'
    BY <1>1 DEF receive_ack, receive_print, receive_end, Typed, CompilerTyped, receiveVars, compilerVars
  <2> QED BY <2>2, <2>3, <2>4 DEF Typed
<1>2. ASSUME receive_output PROVE Typed'
  <2>1. PICK lines : lines = Head(toCompiler).lines OBVIOUS
  <2>2. lines \in Seq(Reports) BY <1>2, <2>1 DEF receive_output, Received, Typed, ChannelTyped, Answers
  <2>3. load_entries' \in [Names -> 0 .. MaxSends]
    <3> DEFINE loads == {i \in DOMAIN lines : lines[i].kind = "load"}
               first == CHOOSE i \in loads : \A j \in loads : i <= j
    <3>1. load_entries' = IF pending_name # NoName /\ loads # {}
                          THEN [load_entries EXCEPT ![pending_name] = lines[first].of] ELSE load_entries
      BY <1>2, <2>1 DEF receive_output, add_load
    <3>2. loads \in SUBSET Nat BY <2>2
    <3>3. loads # {} => first \in loads BY <3>2, LeastOf
    <3>4. loads # {} => lines[first].of \in 0 .. MaxSends BY <2>2, <3>3 DEF Reports
    <3> HIDE DEF first, loads
    <3> QED BY <3>1, <3>4 DEF Typed, CompilerTyped
  <2>4. pending_name' \in Names \cup {NoName} BY <1>2 DEF receive_output, Typed, CompilerTyped
  <2>5. toCompiler' \in Seq(Answers) BY <1>2 DEF receive_output, Received, Typed, ChannelTyped
  <2> QED BY <1>2, <2>3, <2>4, <2>5 DEF receive_output, Typed, CompilerTyped, ChannelTyped, EETyped,
              eeVars, serverVars, compilerVars
<1> QED BY <1>1, <1>2 DEF Receive

\* of the DECI2 server,
LEMMA Deci2Types ==
    ASSUME Typed, Deci2
    PROVE  Typed'
<1>1. ASSUME ReadHead PROVE Typed'
  <2>1. toTarget # <<>> /\ Head(toTarget) \in Messages BY <1>1 DEF ReadHead, Typed, ChannelTyped
  <2>2. buffer' \in [head : Messages \cup {NoMsg}, body : 0 .. MaxSends]
    BY <1>1, <2>1 DEF ReadHead, Typed, ChannelTyped
  <2>3. ChannelTyped' BY <1>1, <2>1, <2>2 DEF ReadHead, Typed, ChannelTyped, eeVars
  <2> QED BY <1>1, <2>3 DEF ReadHead, Typed, CompilerTyped, EETyped, eeVars, receiveVars, compilerVars
<1>2. ASSUME ReadDone PROVE Typed'
  <2>1. toTarget # <<>> /\ Head(toTarget) \in Messages /\ Tail(toTarget) \in Seq(Messages)
    BY <1>2 DEF ReadDone, Typed, ChannelTyped
  <2>2. Head(toTarget).id \in 0 .. MaxSends BY <2>1 DEF Messages, Ids
  <2>3. buffer' \in [head : Messages \cup {NoMsg}, body : 0 .. MaxSends]
    BY <1>2, <2>2 DEF ReadDone, Typed, ChannelTyped
  <2>4. ChannelTyped' BY <1>2, <2>1, <2>3 DEF ReadDone, Typed, ChannelTyped, eeVars
  <2> QED BY <1>2, <2>4 DEF ReadDone, Typed, CompilerTyped, EETyped, eeVars, receiveVars, compilerVars
<1> QED BY <1>1, <1>2 DEF Deci2

\* (what SendAck sends)
LEMMA AckTyped ==
    ASSUME EETyped
    PROVE  Ack(proto.id) \in Answers
  BY ListenerAssumption DEF EETyped, Ack, Answers, Messages, NoMsg, None, Ids

\* (what ClearPending sends)
LEMMA ClearTyped ==
    ASSUME NEW out \in Seq(Reports), NEW said \in Seq(Ids)
    PROVE  ClearPending(out, said) \in Seq(Answers)
<1>1. [kind |-> "output", lines |-> out] \in Answers /\ [kind |-> "print", lines |-> said] \in Answers
  BY DEF Answers
<1> QED BY <1>1 DEF ClearPending

\* and of the kernel loop.
LEMMA EETypes ==
    ASSUME Typed, EE
    PROVE  Typed'
<1> USE DEF Typed, CompilerTyped, ChannelTyped, EETyped, eeKeeps, receiveVars, compilerVars
<1>1. CASE InitGoalProto BY <1>1 DEF InitGoalProto
<1>2. CASE reset_output
  <2>1. output' \in Seq(Reports) BY <1>2 DEF reset_output, Reports
  <2> QED BY <1>2, <2>1 DEF reset_output
<1>3. CASE ReceiveToBuffer BY <1>3 DEF ReceiveToBuffer
<1>4. CASE MarkReceived
  <2>1. arrived' \in BOOLEAN /\ epc' = "process" BY <1>4 DEF MarkReceived
  <2>2. ChannelTyped' BY <1>4, <2>1 DEF MarkReceived
  <2> QED BY <1>4, <2>2 DEF MarkReceived
<1>5. CASE NoMessage BY <1>5 DEF NoMessage
<1>6. CASE ProcessListenerMessage
  <2>1. outbox' \in Seq(Answers)
    <3>1. ClearPending(output, prints) \in Seq(Answers) BY ClearTyped
    <3>2. Ack(proto.id) \in Answers BY AckTyped
    <3> QED BY <1>6, <3>1, <3>2 DEF ProcessListenerMessage, SendAck
  <2>2. MasterExit' \in 0 .. 2 BY <1>6 DEF ProcessListenerMessage
  <2> QED BY <1>6, <2>1, <2>2 DEF ProcessListenerMessage
<1>7. CASE LinkCode
  <2>1. output' \in Seq(Reports) BY <1>7 DEF LinkCode, Reports
  <2> QED BY <1>7, <2>1 DEF LinkCode
<1>8. ASSUME NEW quit \in BOOLEAN, Dispatch(quit) PROVE Typed'
  <2> DEFINE said == IF function # None THEN Append(prints, function) ELSE prints
             flush == IF status THEN ClearPending(output, said) ELSE <<>>
  <2>1. said \in Seq(Ids) /\ ran' \in Seq(Ids)
    <3>1. function # None => function \in Ids BY ListenerAssumption DEF None, Ids
    <3>2. ran' = IF function # None THEN Append(ran, function) ELSE ran BY <1>8 DEF Dispatch
    <3>3. said \in Seq(Ids) BY <3>1
    <3>4. ran' \in Seq(Ids) BY <3>1, <3>2
    <3> QED BY <3>3, <3>4
  <2>2. flush \in Seq(Answers)
    <3> HIDE DEF said
    <3>1. ClearPending(output, said) \in Seq(Answers) BY <2>1, ClearTyped
    <3> QED BY <3>1
  <2>3. outbox' = IF function # None THEN SendAck(flush, proto.id) ELSE flush BY <1>8 DEF Dispatch
  <2>4. prints' = IF status THEN <<>> ELSE said BY <1>8 DEF Dispatch
  <2> HIDE DEF said, flush
  <2>5. outbox' \in Seq(Answers) BY <2>2, <2>3, AckTyped DEF SendAck
  <2>6. prints' \in Seq(Ids) BY <2>1, <2>4
  <2>7. output' \in Seq(Reports) /\ MasterExit' \in 0 .. 2
                                    /\ after' \in {"check", "dispatch", "exit"}
                                       /\ function' \in 0 .. MaxSends /\ epc' = "send"
    BY <1>8, ListenerAssumption DEF Dispatch, None
  <2> QED BY <1>8, <2>1, <2>5, <2>6, <2>7 DEF Dispatch
<1>9. CASE SendFromBufferD
  <2>1. toCompiler' \in Seq(Answers) /\ outbox' \in Seq(Answers) BY <1>9 DEF SendFromBufferD
  <2> QED BY <1>9, <2>1 DEF SendFromBufferD
<1>10. CASE AllSent BY <1>10 DEF AllSent
<1>11. CASE Restart
  <2>1. epc' \in {"boot", "off"} /\ server' = epc' BY <1>11 DEF Restart, ExitTo
  <2>2. buffer' \in [head : Messages \cup {NoMsg}, body : 0 .. MaxSends] /\ toTarget' = <<>>
    BY <1>11, ListenerAssumption DEF Restart, None
  <2>a. \A S : <<>> \in Seq(S) OBVIOUS
  <2>b. arrived' \in BOOLEAN /\ status' \in BOOLEAN BY <1>11 DEF Restart
  <2>c. 0 \in 0 .. MaxSends BY ListenerAssumption
  <2>3. ChannelTyped' BY <1>11, <2>1, <2>2, <2>a, <2>b DEF Restart
  <2>4. EETyped' BY <1>11, <2>1, <2>a, <2>b, <2>c DEF Restart, None
  <2> QED BY <1>11, <2>3, <2>4 DEF Restart
<1> QED BY <1>1, <1>2, <1>3, <1>4, <1>5, <1>6, <1>7, <1>8, <1>9, <1>10, <1>11 DEF EE

-----------------------------------------------------------------------------
(* Steps of the target.                                                    *)

\* Where the message of a patient compiler goes in a step of the target.
Keeps ==
    /\ Still => Still' /\ (Known => Known') /\ (Before => Before')
    /\ Trailing => (Still \/ Trailing)'
    /\ Unread => (Unread \/ Linked \/ Answering \/ Lost)'
    /\ Linked => (Linked \/ Answering)'
    /\ Answering => Answering'
    /\ Lost => Lost'
    /\ (Still \/ Trailing) /\ Answered => Answered'

\* What the compiler relies on is left alone by such a step.
LEMMA KeepsPhase ==
    ASSUME Phase, Keeps, UNCHANGED <<compilerVars, receiveVars, connected, pending_name>>
    PROVE  Phase'
<1> USE DEF compilerVars, receiveVars
<1>1. UNCHANGED <<Runs, Resets, Recorded, Entered>> BY DEF Runs, Resets, Recorded, Entered
<1>2. CASE cpc = "repl"
  <2>1. AtRepl' BY <1>1, <1>2 DEF Phase, AtRepl, Keeps, Trailing
  <2> QED BY <1>2, <2>1 DEF Phase
<1>3. CASE cpc = "write"
  <2>1. AtWrite' BY <1>1, <1>3 DEF Phase, AtWrite, Keeps
  <2> QED BY <1>3, <2>1 DEF Phase
<1>4. CASE cpc = "wait"
  <2>1. AtWait' BY <1>1, <1>4 DEF Phase, AtWait, Keeps
  <2> QED BY <1>4, <2>1 DEF Phase
<1>5. CASE cpc = "disconnect"
  <2>1. AtDisconnect' BY <1>1, <1>5 DEF Phase, AtDisconnect, Keeps
  <2> QED BY <1>5, <2>1 DEF Phase
<1> QED BY <1>2, <1>3, <1>4, <1>5 DEF Phase

\* Steps that neither take a message nor send one.
Aside ==
    /\ UNCHANGED <<compilerVars, receiveVars, connected, pending_name, conn, toTarget, toCompiler, outbox>>
    /\ UNCHANGED <<deci, buffer, arrived, proto, function, ran, boots, status, output, MasterExit, prints>>
    /\ epc \in {"boot", "booting", "off"} <=> epc' \in {"boot", "booting", "off"}
    /\ epc' \notin {"take", "process"} /\ epc \notin {"take", "process"}

\* They keep every stage.
LEMMA AsideKeeps ==
    ASSUME Typed, Aside, Linked => Linked', Leaving => Leaving'
    PROVE  Keeps
<1> USE DEF Aside, compilerVars, receiveVars
<1>1. UNCHANGED <<Runs, Resets, Recorded, Entered, HasRun, Pipe, Before, Fresh, Known>>
  BY DEF Runs, Resets, Recorded, Entered, HasRun, Pipe, Before, Fresh, Known
<1>2. NoneIn <=> NoneIn' BY DEF NoneIn
<1>3. InSocket => InSocket' BY DEF InSocket
<1>4. InBuffer => InBuffer' BY DEF InBuffer
<1>5. ~ InProto BY DEF InProto
<1>6. Still => Still' BY <1>1, <1>2 DEF Still
<1>7. Trailing => Trailing' BY <1>1, <1>2 DEF Trailing
<1>8. Unread => Unread' BY <1>1, <1>3, <1>4, <1>5 DEF Unread
<1>9. Lost => Lost' BY <1>1, <1>2 DEF Lost
<1>10. Answered => Answered' BY <1>1 DEF Answered
<1>11. Answering => Answering'
  <2>1. OutputFirst => OutputFirst' BY <1>1 DEF OutputFirst
  <2>2. PrintFirst => PrintFirst' BY <1>1 DEF PrintFirst
  <2>3. PokeFirst => PokeFirst' BY <1>1 DEF PokeFirst
  <2>4. AckFirst => AckFirst' BY <1>1 DEF AckFirst
  <2>5. ResetFirst => ResetFirst' BY <1>1 DEF ResetFirst
  <2> QED BY <1>1, <1>2, <2>1, <2>2, <2>3, <2>4, <2>5 DEF Answering
<1> QED BY <1>1, <1>6, <1>7, <1>8, <1>9, <1>10, <1>11 DEF Keeps

\* NoMessage: the loop goes on without a message.
LEMMA NoMessageKeeps ==
    ASSUME Typed, Machine, NoMessage
    PROVE  Keeps /\ Machine'
<1>1. Aside BY DEF NoMessage, eeKeeps, Aside, receiveVars, compilerVars
<1>2. ~ Linked /\ ~ Leaving BY DEF NoMessage, Linked, Leaving
<1>3. Machine' BY <1>1 DEF Aside, NoMessage, Machine
<1> QED BY <1>1, <1>2, <1>3, AsideKeeps

\* AllSent: the loop goes on when everything is sent.
LEMMA AllSentKeeps ==
    ASSUME Typed, Machine, AllSent
    PROVE  Keeps /\ Machine'
<1>1. Aside BY DEF AllSent, eeKeeps, Aside, receiveVars, compilerVars, Typed, EETyped
<1>2. ~ Linked BY DEF AllSent, Linked
<1>3. Leaving => Leaving' BY <1>1 DEF AllSent, Aside, Leaving
<1>4. Machine' BY <1>1 DEF Aside, AllSent, Machine, Typed, EETyped
<1> QED BY <1>1, <1>2, <1>3, <1>4, AsideKeeps

\* InitGoalProto: nobody is connected yet.
LEMMA InitGoalProtoKeeps ==
    ASSUME Typed, Machine, InitGoalProto
    PROVE  Keeps /\ Machine'
<1>1. Aside BY DEF InitGoalProto, eeKeeps, Aside, receiveVars, compilerVars
<1>2. ~ Linked /\ ~ Leaving BY DEF InitGoalProto, Linked, Leaving
<1>3. Machine'
  <2>1. toTarget = <<>> /\ deci = "waiting" BY DEF InitGoalProto, Machine
  <2> QED BY <1>1, <2>1 DEF Aside, InitGoalProto, Machine
<1> QED BY <1>1, <1>2, <1>3, AsideKeeps

\* reset_output: nothing has been answered by this run.
LEMMA reset_outputKeeps ==
    ASSUME Typed, Machine, reset_output
    PROVE  Keeps /\ Machine'
<1> USE DEF reset_output, eeKeeps, compilerVars, receiveVars
<1>1. UNCHANGED <<Runs, Resets, Recorded, Entered, HasRun, Pipe, Before>>
  BY DEF Runs, Resets, Recorded, Entered, HasRun, Pipe, Before
<1>2. ~ status /\ ~ status' /\ epc' = "check" BY DEF Machine
<1>3. Fresh' /\ Known' /\ ~ Leaving BY <1>2 DEF Fresh, Known, Leaving, Reset
<1>4. NoneIn => NoneIn' BY DEF NoneIn
<1>5. ~ Linked BY DEF Linked
<1>6. Still => Still' BY <1>1, <1>3, <1>4 DEF Still
<1>7. Trailing => Trailing' BY <1>1, <1>3, <1>4 DEF Trailing
<1>8. Unread => Unread'
  <2>1. InSocket => InSocket' BY DEF InSocket
  <2>2. InBuffer => InBuffer' BY DEF InBuffer
  <2>3. ~ InProto BY DEF InProto
  <2> QED BY <1>1, <1>3, <2>1, <2>2, <2>3 DEF Unread
<1>9. Lost => Lost' BY <1>1, <1>3, <1>4 DEF Lost
<1>10. Answered => Answered' BY <1>1, <1>3 DEF Answered
<1>11. Answering => Answering'
  <2> HAVE Answering
  <2>1. conn # "open" BY <1>2 DEF Answering
  <2>2. OutputFirst => OutputFirst' BY <1>1, <1>3, <2>1 DEF OutputFirst
  <2>3. PrintFirst => PrintFirst' BY <1>1, <1>3 DEF PrintFirst
  <2>4. PokeFirst => PokeFirst' BY <1>1, <1>3, <2>1 DEF PokeFirst
  <2>5. AckFirst => AckFirst' BY <1>1, <1>3 DEF AckFirst
  <2>6. ResetFirst => ResetFirst' BY <1>1, <1>3 DEF ResetFirst
  <2> QED BY <1>1, <1>2, <1>4, <2>1, <2>2, <2>3, <2>4, <2>5, <2>6 DEF Answering
<1>12. Machine' BY <1>2 DEF Machine
<1> QED BY <1>1, <1>3, <1>5, <1>6, <1>7, <1>8, <1>9, <1>10, <1>11, <1>12 DEF Keeps

\* ReceiveToBuffer copies the message that is in the buffer.
LEMMA ReceiveToBufferKeeps ==
    ASSUME Typed, Machine, ReceiveToBuffer
    PROVE  Keeps /\ Machine'
<1> USE DEF ReceiveToBuffer, eeKeeps, compilerVars, receiveVars
<1>1. UNCHANGED <<Runs, Pipe, Before, Fresh, Known>> BY DEF Runs, Pipe, Before, Fresh, Known
<1>2. ~ NoneIn /\ ~ Linked BY DEF NoneIn, Linked
<1>3. InBuffer => InBuffer' BY DEF InBuffer
<1>4. ~ InSocket /\ ~ InProto BY DEF InSocket, InProto
<1>5. Unread => Unread' BY <1>1, <1>3, <1>4 DEF Unread
<1>6. Machine' BY DEF Machine
<1> QED BY <1>2, <1>5, <1>6 DEF Keeps, Still, Trailing, Answering, Lost

\* MarkReceived: the message is now in the protocol block only.
LEMMA MarkReceivedKeeps ==
    ASSUME Typed, Machine, MarkReceived
    PROVE  Keeps /\ Machine'
<1> USE DEF MarkReceived, eeKeeps, compilerVars, receiveVars
<1>1. UNCHANGED <<Runs, Pipe, Before, Fresh, Known>> BY DEF Runs, Pipe, Before, Fresh, Known
<1>2. ~ NoneIn /\ ~ Linked BY DEF NoneIn, Linked
<1>3. InBuffer => InProto' BY DEF InBuffer, InProto
<1>4. ~ InSocket /\ ~ InProto BY DEF InSocket, InProto
<1>5. Unread => Unread' BY <1>1, <1>3, <1>4 DEF Unread
<1>6. Machine' BY DEF Machine
<1> QED BY <1>2, <1>5, <1>6 DEF Keeps, Still, Trailing, Answering, Lost

\* SendFromBufferD moves one answer; it is dropped only after a reset.
LEMMA SendKeeps ==
    ASSUME Typed, Machine, SendFromBufferD
    PROVE  Keeps /\ Machine'
<1> USE DEF SendFromBufferD, eeKeeps, compilerVars, receiveVars
<1>1. UNCHANGED <<Runs, Resets, Recorded, Entered, HasRun, Before, Fresh, Known, NoneIn, Leaving>>
  BY DEF Runs, Resets, Recorded, Entered, HasRun, Before, Fresh, Known, NoneIn, Leaving
<1>2. toCompiler \in Seq(Answers) /\ outbox \in Seq(Answers) /\ outbox # <<>> BY DEF Typed, ChannelTyped
<1>3. Pipe # <<>> BY <1>2, ConcatNone DEF Pipe
<1>4. conn = "open" => Pipe' = Pipe BY <1>2, ConcatStep DEF Pipe
<1>5. Machine' BY <1>2 DEF Machine
<1>6. Trailing => (Still \/ Trailing)'
  <2>1. CASE conn = "open" BY <1>1, <1>4, <2>1 DEF Trailing
  <2>2. CASE conn # "open" /\ Trailing
    <3>1. Fresh /\ NoneIn BY <1>3, <2>2 DEF Trailing
    <3>2. PICK x : Pipe = <<x>> BY <1>3, <2>2 DEF Trailing
    <3>3. toCompiler = <<>> /\ Tail(outbox) = <<>> BY <1>2, <3>2, ConcatOne DEF Pipe
    <3>4. Pipe' = <<>> BY <2>2, <3>3 DEF Pipe
    <3> QED BY <1>1, <3>1, <3>4 DEF Still
  <2> QED BY <2>1, <2>2
<1>7. Answering => Answering'
  <2> HAVE Answering
  <2>1. conn = "open" /\ Pipe' = Pipe BY <1>2, <1>4 DEF Answering
  <2>2. OutputFirst => OutputFirst' BY <1>1, <2>1 DEF OutputFirst
  <2>3. PrintFirst => PrintFirst' BY <1>1, <2>1 DEF PrintFirst
  <2>4. PokeFirst => PokeFirst' BY <1>1, <2>1 DEF PokeFirst
  <2>5. AckFirst => AckFirst' BY <1>1, <2>1 DEF AckFirst
  <2>6. ResetFirst => ResetFirst' BY <1>1, <2>1 DEF ResetFirst
  <2> QED BY <1>1, <2>1, <2>2, <2>3, <2>4, <2>5, <2>6 DEF Answering
<1>8. Answered => Answered' BY <1>1 DEF Answered
<1> QED BY <1>3, <1>5, <1>6, <1>7, <1>8 DEF Keeps, Still, Unread, Linked, Lost

\* Restart: what was not answered is lost, what was answered stays in the socket.
LEMMA RestartKeeps ==
    ASSUME Typed, Machine, Restart
    PROVE  Keeps /\ Machine'
<1> USE DEF Restart, compilerVars, receiveVars
<1>1. UNCHANGED <<Runs, Resets, Recorded, Entered, HasRun, Before, Pipe>>
  BY DEF Runs, Resets, Recorded, Entered, HasRun, Before, Pipe
<1>2. conn' # "open" /\ ~ status' /\ epc' \in {"boot", "off"} /\ server' = epc' BY
  DEF ExitTo, Typed, ChannelTyped
<1>3. Fresh' /\ Known' /\ NoneIn' /\ ~ Leaving BY <1>2 DEF Fresh, Known, NoneIn, None, Leaving
<1>4. Machine' BY <1>2 DEF Machine
<1>5. Trailing => Trailing' BY <1>1, <1>3 DEF Trailing
<1>6. Answering => Answering'
  <2>1. OutputFirst => OutputFirst' BY <1>1, <1>2, <1>3 DEF OutputFirst
  <2>2. PrintFirst => PrintFirst' BY <1>1, <1>3 DEF PrintFirst
  <2>3. PokeFirst => PokeFirst' BY <1>1, <1>2, <1>3 DEF PokeFirst
  <2>4. AckFirst => AckFirst' BY <1>1, <1>3 DEF AckFirst
  <2>5. ResetFirst => ResetFirst' BY <1>1, <1>3 DEF ResetFirst
  <2>6. outbox' = <<>> BY DEF Machine
  <2> QED BY <1>1, <1>2, <1>3, <2>1, <2>2, <2>3, <2>4, <2>5, <2>6 DEF Answering
<1>7. Unread => Lost' BY <1>1, <1>2, <1>3 DEF Unread, Lost
<1>8. Lost => Lost' BY <1>1, <1>2, <1>3 DEF Lost
<1>9. Still => Still' BY <1>1, <1>3 DEF Still
<1>10. Answered => Answered' BY <1>1, <1>2, <1>3 DEF Answered
<1>11. ~ Linked BY DEF Linked
<1> QED BY <1>1, <1>3, <1>4, <1>5, <1>6, <1>7, <1>8, <1>9, <1>10, <1>11 DEF Keeps

\* A message that has been taken is answered, or its code linked.
LEMMA Taken ==
    ASSUME Typed, Machine, epc = "process"
    PROVE  /\ ~ Still /\ ~ Trailing /\ ~ Linked /\ ~ Answering /\ ~ Lost
           /\ outbox = <<>> /\ prints = <<>> /\ MasterExit = 0
           /\ Unread => toCompiler = <<>> /\ InProto /\ output = IF status THEN <<>> ELSE <<Reset(boots)>>
<1>1. ~ NoneIn BY DEF NoneIn
<1>2. outbox = <<>> /\ prints = <<>> /\ MasterExit = 0 BY DEF Machine
<1>3. ASSUME Unread PROVE toCompiler = <<>>
  <2>1. Pipe = <<>> BY <1>3 DEF Unread
  <2> QED BY <2>1, ConcatNone DEF Pipe, Typed, ChannelTyped
<1>4. Unread => InProto BY DEF Unread, InSocket, InBuffer
<1>5. Unread => output = IF status THEN <<>> ELSE <<Reset(boots)>> BY DEF Unread, Fresh
<1> QED BY <1>1, <1>2, <1>3, <1>4, <1>5 DEF Still, Trailing, Linked, Answering, Lost

\* ProcessListenerMessage: a poke or a reset is answered.
LEMMA ProcessKeeps ==
    ASSUME Typed, Machine, ProcessListenerMessage
    PROVE  Keeps /\ Machine'
<1> USE DEF ProcessListenerMessage, eeKeeps, compilerVars, receiveVars
<1>1. /\ ~ Still /\ ~ Trailing /\ ~ Linked /\ ~ Answering /\ ~ Lost
      /\ outbox = <<>> /\ prints = <<>> /\ MasterExit = 0
  BY Taken
<1>2. Machine' BY <1>1 DEF Machine
<1>3. ASSUME Unread PROVE Answering'
  <2>1. toCompiler = <<>> /\ InProto /\ output = (IF status THEN <<>> ELSE <<Reset(boots)>>) BY <1>3, Taken
  <2>2. proto = cmd /\ NoneIn' /\ conn' = "open" /\ status' BY <1>3, <2>1 DEF InProto, NoneIn, Unread
  <2>3. UNCHANGED <<Runs, Resets, Recorded, Entered, HasRun>> BY DEF Runs, Resets, Recorded, Entered, HasRun
  <2>4. message_record' = <<>> /\ ~ Runs /\ HasRun' BY <1>3, <2>2, <2>3 DEF Unread, Runs, HasRun
  <2>5. outbox' \in Seq(Answers) BY EETypes DEF EE, Typed, ChannelTyped
  <2>6. Pipe' = outbox' BY <2>1, <2>5 DEF Pipe
  <2>7. CASE proto.kind = "poke"
    <3>1. outbox' = Append(ClearPending(output, prints), Ack(cmd.id)) /\ output' = <<>> BY <2>2, <2>7
      DEF SendAck
    <3>2. Fresh' BY <2>2, <3>1 DEF Fresh
    <3>3. CASE status
      <4>1. ClearPending(output, prints) = <<>> BY <1>1, <2>1, <3>3 DEF ClearPending
      <4>2. Pipe' = <<Ack(cmd.id)>> BY <2>6, <3>1, <4>1, Tuples
      <4>3. Known' BY <1>3, <3>3 DEF Known, Unread
      <4>4. Entered' /\ Recorded' /\ ~ Resets' BY <2>2, <2>4, <2>7 DEF Entered, Recorded, Resets
      <4>5. AckFirst' BY <3>2, <4>2, <4>3, <4>4 DEF AckFirst
      <4> QED BY <2>2, <2>4, <4>5 DEF Answering
    <3>4. CASE ~ status
      <4>1. ClearPending(output, prints) = <<Output(<<Reset(boots)>>)>>
        BY <1>1, <2>1, <3>4, Tuples DEF ClearPending, Output
      <4>2. Pipe' = <<Output(<<Reset(boots)>>), Ack(cmd.id)>> BY <2>6, <3>1, <4>1, Tuples
      <4>3. PokeFirst' BY <2>2, <2>4, <2>7, <3>2, <4>2 DEF PokeFirst, Typed, EETyped
      <4> QED BY <2>2, <2>4, <4>3 DEF Answering
    <3> QED BY <3>3, <3>4
  <2>8. CASE proto.kind \in {"reset", "shutdown"}
    <3>1. outbox' = Append(<<>>, Ack(cmd.id)) /\ output' = output BY <2>2, <2>8 DEF SendAck
    <3>2. Pipe' = <<Ack(cmd.id)>> BY <2>6, <3>1, Tuples
    <3>3. Resets' /\ MasterExit' # 0 BY <2>2, <2>8 DEF Resets
    <3>4. Fresh' \/ Leaving' BY <2>1, <2>2, <3>1, <3>3 DEF Fresh, Leaving
    <3>5. ResetFirst' BY <2>2, <2>4, <3>2, <3>3, <3>4 DEF ResetFirst
    <3> QED BY <2>2, <2>4, <3>5 DEF Answering
  <2> QED BY <2>7, <2>8
<1> QED BY <1>1, <1>2, <1>3 DEF Keeps

\* LinkCode: code is linked, and its load follows the reset message, if any.
LEMMA LinkCodeKeeps ==
    ASSUME Typed, Machine, LinkCode
    PROVE  Keeps /\ Machine'
<1> USE DEF LinkCode, eeKeeps, compilerVars, receiveVars
<1>1. /\ ~ Still /\ ~ Trailing /\ ~ Linked /\ ~ Answering /\ ~ Lost
      /\ outbox = <<>> /\ prints = <<>> /\ MasterExit = 0
  BY Taken
<1>2. Machine' BY <1>1 DEF Machine
<1>3. ASSUME Unread PROVE Linked'
  <2>1. InProto /\ output = (IF status THEN <<>> ELSE <<Reset(boots)>>) BY <1>3, Taken
  <2>2. proto = cmd /\ Runs /\ function' = cmd.id BY <2>1 DEF InProto, Runs
  <2>a. cmd.id # None
    <3>1. cmd # NoMsg BY <2>2 DEF NoMsg, Runs
    <3>2. cmd \in Messages BY <3>1 DEF Typed, CompilerTyped
    <3> QED BY <3>2, ListenerAssumption DEF Messages, Ids, None
  <2>3. UNCHANGED <<Before, Pipe, Runs>> BY DEF Before, Pipe, Runs
  <2>4. output' = Append(output, Load(cmd.id)) BY <2>1 DEF InProto, Load
  <2>5. output' = <<Reset(boots), Load(cmd.id)>> \/ (output' = <<Load(cmd.id)>> /\ context = boots)
    <3>1. CASE status
      <4>1. output' = <<Load(cmd.id)>> BY <2>1, <2>4, <3>1, Tuples
      <4> QED BY <1>3, <3>1, <4>1 DEF Unread, Known
    <3>2. CASE ~ status BY <2>1, <2>4, <3>2, Tuples
    <3> QED BY <3>1, <3>2
  <2>6. /\ conn = "open" /\ Pipe = <<>> /\ Before /\ pending_name = cmd.name /\ message_record = <<>>
        /\ toTarget = <<>> /\ ~ arrived
    BY <1>3, <2>1, <2>2 DEF Unread, InProto
  <2> QED BY <1>1, <2>2, <2>3, <2>5, <2>6, <2>a DEF Linked
<1> QED BY <1>1, <1>2, <1>3 DEF Keeps

\* Dispatch runs linked code and answers it, and sends what a reset has left.
LEMMA DispatchKeeps ==
    ASSUME Typed, Machine, NEW quit \in BOOLEAN, Dispatch(quit)
    PROVE  Keeps /\ Machine'
<1> USE DEF Dispatch, eeKeeps, compilerVars, receiveVars
<1>1. outbox = <<>> /\ prints = <<>> BY DEF Machine
<1>2. Machine'
  <2>1. ~ status => outbox' = <<>> BY DEF Machine
  <2>2. prints' = <<>> BY DEF Machine
  <2>3. epc' = "send" /\ function' = None /\ (after' = "check" => MasterExit' = 0) OBVIOUS
  <2> QED BY <2>1, <2>2, <2>3 DEF Machine
<1>3. ASSUME Linked PROVE Answering'
  <2>1. PICK o : o = output OBVIOUS
  <2>2. /\ function = cmd.id /\ proto = cmd /\ status /\ Runs /\ conn = "open" /\ toTarget = <<>>
           /\ ~ arrived
        /\ pending_name = cmd.name /\ message_record = <<>> /\ Pipe = <<>>
        /\ o = <<Reset(boots), Load(cmd.id)>> \/ (o = <<Load(cmd.id)>> /\ context = boots)
    BY <1>3, <2>1 DEF Linked
  <2>3. function # None BY <1>3 DEF Linked
  <2>4. toCompiler = <<>> BY <2>2, ConcatNone DEF Pipe, Typed, ChannelTyped
  <2>5. o # <<>> BY <2>2, Tuples
  <2>6. Append(prints, function) = <<cmd.id>> BY <1>1, <2>2, Tuples
  <2>7. ClearPending(o, <<cmd.id>>) = <<Output(o), Printed(cmd.id)>>
    <3>1. <<cmd.id>> # <<>> BY Tuples
    <3>2. PICK a, b : a = Output(o) /\ b = Printed(cmd.id) OBVIOUS
    <3>3. ClearPending(o, <<cmd.id>>) = <<a>> \o <<b>> BY <2>5, <3>1, <3>2 DEF ClearPending, Output, Printed
    <3> QED BY <3>2, <3>3, Tuples
  <2>8. outbox' = Append(ClearPending(o, <<cmd.id>>), Ack(cmd.id)) BY <2>1, <2>2, <2>3, <2>6 DEF SendAck
  <2>9. outbox' = <<Output(o), Printed(cmd.id), Ack(cmd.id)>>
    <3>1. PICK a, b, c : a = Output(o) /\ b = Printed(cmd.id) /\ c = Ack(cmd.id) OBVIOUS
    <3>2. outbox' = Append(<<a, b>>, c) BY <2>7, <2>8, <3>1
    <3> QED BY <3>1, <3>2, Tuples
  <2>10. outbox' \in Seq(Answers) BY EETypes DEF EE, Typed, ChannelTyped
  <2>11. Pipe' = <<Output(o), Printed(cmd.id), Ack(cmd.id)>> 
    <3>1. Pipe' = <<>> \o outbox' BY <2>4 DEF Pipe
    <3>2. Pipe' = outbox' BY <2>10, <3>1, ConcatNone
    <3> QED BY <2>9, <3>2
  <2>12. Fresh' BY <2>2 DEF Fresh
  <2>13. NoneIn' BY <2>2 DEF NoneIn
  <2>14. HasRun'
    <3>1. ran' = Append(ran, cmd.id) BY <2>2, <2>3
    <3>2. cmd.id \in Ids BY <2>2, <2>3, ListenerAssumption DEF Typed, EETyped, Ids, None
    <3>3. ran' # <<>> /\ ran'[Len(ran')] = cmd.id BY <3>1, <3>2, AppendProperties DEF Typed, EETyped
    <3> QED BY <3>3 DEF HasRun
  <2>15. OutputFirst'
    <3>1. Runs' /\ pending_name' = cmd'.name /\ message_record' = <<>> BY <2>2 DEF Runs
    <3>2. CASE o = <<Reset(boots), Load(cmd.id)>> BY <2>11, <2>12, <3>1, <3>2
      DEF OutputFirst, Typed, EETyped
    <3>3. CASE o = <<Load(cmd.id)>> /\ context = boots
      <4>1. Known' BY <3>3 DEF Known
      <4> QED BY <2>11, <2>12, <3>1, <3>3, <4>1 DEF OutputFirst
    <3> QED BY <2>2, <3>2, <3>3
  <2> QED BY <2>2, <2>12, <2>13, <2>14, <2>15 DEF Answering
<1>4. ASSUME function = None, Fresh PROVE Keeps
  <2>1. output' = output /\ outbox' = outbox /\ prints' = prints /\ ran' = ran /\ MasterExit' = MasterExit
    <3>1. status => output = <<>> BY <1>4 DEF Fresh
    <3>2. ClearPending(<<>>, <<>>) = <<>> BY DEF ClearPending
    <3>3. outbox' = <<>> BY <1>1, <1>4, <3>1, <3>2
    <3> QED BY <1>1, <1>4, <3>1, <3>3
  <2>2. Aside BY <1>4, <2>1 DEF Aside
  <2>3. ~ Leaving BY <1>4, Tuples DEF Fresh, Leaving
  <2>4. ~ Linked BY <1>4 DEF Linked
  <2> QED BY <2>2, <2>3, <2>4, AsideKeeps
<1>5. ASSUME function = None, Leaving PROVE Keeps
  <2>1. /\ status /\ MasterExit # 0 /\ output = <<Reset(boots)>> BY <1>5 DEF Leaving
  <2>2. ~ Fresh /\ ~ Linked BY <1>5, <2>1, Tuples DEF Fresh, Linked
  <2>3. PICK a : a = Output(<<Reset(boots)>>) OBVIOUS
  <2>4. outbox' = <<a>>
    <3>1. outbox' = ClearPending(output, <<>>) BY <1>1, <1>5, <2>1
    <3>2. output # <<>> BY <2>1, Tuples
    <3>3. ClearPending(output, <<>>) = <<a>> \o <<>> BY <2>1, <2>3, <3>2 DEF ClearPending, Output
    <3> QED BY <3>1, <3>3, Tuples
  <2>5. Fresh' BY <2>1 DEF Fresh
  <2>6. NoneIn => NoneIn' BY <1>5 DEF NoneIn
  <2>7. UNCHANGED <<Runs, Resets, Recorded, Entered, HasRun, Known>>
    BY <1>5 DEF Runs, Resets, Recorded, Entered, HasRun, Known
  <2>8. Pipe = toCompiler BY <1>1, ConcatNone DEF Pipe, Typed, ChannelTyped
  <2>9. Pipe' = Pipe \o <<a>> BY <2>4, <2>8 DEF Pipe
  <2>10. Trailing => Trailing'
    <3> HAVE Trailing
    <3>1. Pipe = <<>> /\ NoneIn /\ Resets BY <2>2 DEF Trailing
    <3>2. Pipe' = <<a>> BY <2>9, <3>1, Tuples
    <3> QED BY <2>3, <2>5, <2>6, <2>7, <3>1, <3>2 DEF Trailing, Typed, EETyped
  <2>11. Answering => Answering'
    <3> HAVE Answering
    <3>1. /\ NoneIn /\ HasRun /\ Resets /\ message_record = <<>> /\ Pipe = <<Ack(cmd.id)>> /\ conn = "open"
      BY <2>2 DEF Answering, OutputFirst, PrintFirst, PokeFirst, AckFirst, ResetFirst
    <3>2. PICK b : b = Ack(cmd.id) OBVIOUS
    <3>3. Pipe' = <<b, a>> BY <2>9, <3>1, <3>2, Tuples
    <3>4. ResetFirst' BY <2>3, <2>5, <2>7, <3>1, <3>2, <3>3 DEF ResetFirst, Typed, EETyped
    <3> QED BY <2>1, <2>6, <2>7, <3>1, <3>4 DEF Answering
  <2>12. Answered => Answered' BY <2>7 DEF Answered
  <2> QED BY <2>2, <2>10, <2>11, <2>12 DEF Keeps, Still, Unread, Lost
<1>6. CASE Linked
  <2>1. ~ Still /\ ~ Trailing /\ ~ Unread /\ ~ Answering /\ ~ Lost
    BY <1>6 DEF Linked, Still, Trailing, Unread, Answering, Lost, NoneIn, InSocket, InBuffer, InProto
  <2> QED BY <1>2, <1>3, <1>6, <2>1 DEF Keeps
<1>7. CASE ~ Linked /\ ~ (function = None /\ (Fresh \/ Leaving))
  <2>1. ~ Still /\ ~ Trailing /\ ~ Unread /\ ~ Answering /\ ~ Lost
    BY <1>7 DEF Still, Trailing, Unread, Answering, Lost, NoneIn, InSocket, InBuffer, InProto,
                OutputFirst, PrintFirst, PokeFirst, AckFirst, ResetFirst
  <2> QED BY <1>2, <1>7, <2>1 DEF Keeps
<1> QED BY <1>2, <1>4, <1>5, <1>6, <1>7

\* The server's thread moves the message from the socket to the buffer.
LEMMA Deci2Keeps ==
    ASSUME Typed, Machine, Deci2
    PROVE  Keeps /\ Machine' /\ UNCHANGED <<compilerVars, receiveVars, connected, pending_name, ran>>
<1> USE DEF compilerVars, receiveVars, eeVars
<1>0. toTarget # <<>>
      /\ UNCHANGED <<compilerVars, receiveVars, connected, pending_name, eeVars, conn, toCompiler, server>>
  BY DEF Deci2, ReadHead, ReadDone, Typed, ChannelTyped
<1>1. UNCHANGED <<Runs, Pipe, Before, Fresh, Known>> BY <1>0 DEF Runs, Pipe, Before, Fresh, Known
<1>2. ~ NoneIn /\ ~ Linked /\ ~ InBuffer /\ ~ InProto BY <1>0 DEF NoneIn, Linked, InBuffer, InProto
<1>3. CASE ReadHead
  <2>1. InSocket => InSocket' BY <1>3 DEF ReadHead, InSocket
  <2>2. Unread => Unread' BY <1>0, <1>1, <1>2, <2>1 DEF Unread
  <2>3. Machine' BY <1>3 DEF ReadHead, Machine
  <2> QED BY <1>0, <1>2, <2>2, <2>3 DEF Keeps, Still, Trailing, Answering, Lost
<1>4. CASE ReadDone
  <2>1. InSocket => InBuffer'
    <3> HAVE InSocket
    <3>1. toTarget = <<cmd>> /\ Head(toTarget) = cmd /\ Tail(toTarget) = <<>> BY Tuples DEF InSocket
    <3>2. buffer.head = cmd BY <1>4, <3>1 DEF ReadDone, Machine
    <3>3. buffer'.head = cmd /\ buffer'.body = cmd.id BY <1>4, <3>1, <3>2 DEF ReadDone, Typed, ChannelTyped
    <3> QED BY <1>0, <1>4, <3>1, <3>3 DEF ReadDone, InSocket, InBuffer
  <2>2. Unread => Unread' BY <1>0, <1>1, <1>2, <2>1 DEF Unread
  <2>3. server = "connected" /\ deci' = "waiting" BY <1>4 DEF ReadDone, Typed, ChannelTyped
  <2>4. Machine' BY <1>0, <1>4, <2>3 DEF Machine
  <2> QED BY <1>0, <1>2, <2>2, <2>4 DEF Keeps, Still, Trailing, Answering, Lost
<1> QED BY <1>3, <1>4 DEF Deci2

\* In a step of the target the code that runs is the one that was sent last.
LEMMA EEIncreasing ==
    ASSUME Typed, Phase, Increasing, EE
    PROVE  Increasing'
<1> USE DEF eeKeeps, compilerVars, receiveVars
<1>1. ASSUME NEW quit \in BOOLEAN, Dispatch(quit) PROVE Increasing'
  <2>0. last_sent_id' = last_sent_id /\ last_sent_id \in Nat
    BY <1>1, ListenerAssumption DEF Dispatch, Typed, CompilerTyped
  <2>1. CASE function = None
    <3>1. ran' = ran BY <1>1, <2>1 DEF Dispatch
    <3> QED BY <2>0, <3>1 DEF Increasing
  <2>2. CASE function # None
    <3>1. Linked /\ cpc = "wait"
      BY <2>2 DEF Typed, CompilerTyped, Phase, AtRepl, AtWrite, AtWait, AtDisconnect, Still, Trailing,
           Answering,
                  Lost, Unread, InSocket, InBuffer, InProto, NoneIn
    <3>2. function = last_sent_id /\ Before BY <3>1 DEF Linked, Typed, CompilerTyped
    <3>3. ran \in Seq(Ids) /\ function \in Ids
      BY <2>2, ListenerAssumption DEF Typed, EETyped, Ids, None
    <3>4. ran' = Append(ran, function) BY <1>1, <2>2 DEF Dispatch
    <3>5. PICK n \in Nat : n = Len(ran) BY <3>3
    <3>6. /\ DOMAIN ran = 1 .. n /\ DOMAIN ran' = 1 .. n + 1 /\ ran'[n + 1] = function
          /\ \A i \in 1 .. n : ran'[i] = ran[i]
      BY <3>3, <3>4, <3>5
    <3>7. \A i \in 1 .. n : ran[i] < last_sent_id /\ ran[i] \in Nat
      BY <3>2, <3>3, <3>6, ListenerAssumption DEF Before, Ids
    <3>8. \A i \in 1 .. n + 1 : ran'[i] <= last_sent_id
      <4> TAKE i \in 1 .. n + 1
      <4>1. CASE i = n + 1 BY <2>0, <3>2, <3>6, <4>1
      <4>2. CASE i # n + 1
        <5>1. i \in 1 .. n BY <4>2
        <5> QED BY <2>0, <3>6, <3>7, <5>1
      <4> QED BY <4>1, <4>2
    <3>9. \A i, j \in 1 .. n + 1 : i < j => ran'[i] < ran'[j]
      <4> TAKE i, j \in 1 .. n + 1
      <4> HAVE i < j
      <4>1. i \in 1 .. n OBVIOUS
      <4>2. CASE j = n + 1 BY <3>2, <3>6, <3>7, <4>1, <4>2
      <4>3. CASE j # n + 1
        <5>1. j \in 1 .. n BY <4>3
        <5>2. ran[i] < ran[j] BY <3>6, <4>1, <5>1 DEF Increasing
        <5> QED BY <3>6, <4>1, <5>1, <5>2
      <4> QED BY <4>2, <4>3
    <3> QED BY <2>0, <3>6, <3>8, <3>9 DEF Increasing
  <2> QED BY <2>1, <2>2
<1>2. ASSUME UNCHANGED <<ran, last_sent_id>> PROVE Increasing' BY <1>2 DEF Increasing
<1>3. EE => (\E quit \in BOOLEAN : Dispatch(quit)) \/ UNCHANGED <<ran, last_sent_id>>
  BY DEF EE, InitGoalProto, reset_output, ReceiveToBuffer, MarkReceived, NoMessage, ProcessListenerMessage,
         LinkCode, SendFromBufferD, AllSent, Restart
<1> QED BY <1>1, <1>2, <1>3

\* Every step of the kernel loop.
LEMMA EEKeeps ==
    ASSUME Typed, Machine, Phase, Increasing, EE
    PROVE  Machine' /\ Phase' /\ Increasing'
<1>1. Keeps /\ Machine'
  BY InitGoalProtoKeeps, reset_outputKeeps, ReceiveToBufferKeeps, MarkReceivedKeeps, NoMessageKeeps,
       ProcessKeeps,
     LinkCodeKeeps, SendKeeps, AllSentKeeps, RestartKeeps, DispatchKeeps DEF EE
<1>2. UNCHANGED <<compilerVars, receiveVars, connected, pending_name>>
  BY DEF EE, InitGoalProto, reset_output, ReceiveToBuffer, MarkReceived, NoMessage, ProcessListenerMessage,
         LinkCode, SendFromBufferD, AllSent, Restart, Dispatch, eeKeeps
<1>3. Phase' BY <1>1, <1>2, KeepsPhase
<1> QED BY <1>1, <1>3, EEIncreasing

-----------------------------------------------------------------------------
(* Steps of the compiler.                                                  *)

\* connect_to_target: a target that listens has answered nothing.
LEMMA ConnectInv ==
    ASSUME Typed, Machine, Phase, connect_to_target
    PROVE  Machine' /\ Phase'
<1> USE DEF connect_to_target, eeVars
<1>1. AtRepl /\ ~ status /\ outbox = <<>> /\ toTarget = <<>> BY DEF Phase, Machine
<1>2. Machine' BY <1>1 DEF Machine
<1>3. NoneIn /\ Fresh BY <1>1 DEF AtRepl, Still, Trailing, Leaving
<1>4. NoneIn' /\ Fresh' BY <1>3 DEF NoneIn, Fresh
<1>5. Pipe' = <<>> BY <1>1 DEF Pipe
<1>6. Known' BY <1>1 DEF Known
<1>7. AtRepl' BY <1>1, <1>4, <1>5, <1>6 DEF AtRepl, Still
<1> QED BY <1>2, <1>7 DEF Phase

\* BeginSend: nothing else is under way.
LEMMA BeginSendInv ==
    ASSUME Typed, Machine, Phase, Increasing, NEW kind \in Kinds, NEW name \in Names \cup {NoName},
         BeginSend(kind, name)
    PROVE  Machine' /\ Phase' /\ Increasing'
<1> USE DEF BeginSend, receiveVars, serverVars, eeVars
<1>1. AtRepl /\ Still /\ Known /\ message_record = <<>> /\ filter = FALSE BY
  DEF Phase, AtRepl, Typed, CompilerTyped
<1>2. Machine' BY DEF Machine
<1>3. UNCHANGED <<NoneIn, Fresh, Pipe, Known>> BY DEF NoneIn, Fresh, Pipe, Known
<1>4. Still' /\ Known' BY <1>1, <1>3 DEF Still
<1>5. Before' /\ Increasing'
  <2>1. last_sent_id' = last_sent_id + 1 /\ last_sent_id \in Nat /\ ran' = ran BY ListenerAssumption
    DEF Typed, CompilerTyped
  <2>2. \A i \in DOMAIN ran : ran[i] \in Nat
    <3>1. ran \in Seq(Ids) BY DEF Typed, EETyped
    <3> QED BY <3>1, ListenerAssumption DEF Ids
  <2> QED BY <2>1, <2>2 DEF Before, Increasing
<1>6. cmd'.kind = kind /\ cmd'.name = name OBVIOUS
<1>7. Runs' => pending_name' = cmd'.name BY <1>6 DEF Runs
<1>8. AtWrite' BY <1>1, <1>4, <1>5, <1>7 DEF AtWrite
<1>9. filter' <=> cmd'.kind = "test" BY <1>1, <1>6
<1> QED BY <1>2, <1>5, <1>8, <1>9 DEF Phase

\* send_buffer: the message is in the socket, or lost.
LEMMA SendBufferInv ==
    ASSUME Typed, Machine, Phase, send_buffer
    PROVE  Machine' /\ Phase'
<1> USE DEF send_buffer, receiveVars, serverVars, eeVars
<1>1. AtWrite /\ toTarget = <<>> /\ deci # "reading" BY
  DEF Phase, AtWrite, Still, NoneIn, Typed, ChannelTyped
<1>2. Machine' BY <1>1 DEF Machine
<1>3. UNCHANGED <<Fresh, Pipe, Known, Before, Runs>> BY DEF Fresh, Pipe, Known, Before, Runs
<1>4. CASE conn = "open"
  <2>1. toTarget' = <<cmd>> BY <1>1, <1>4, Tuples
  <2>2. InSocket' BY <1>1, <2>1 DEF AtWrite, Still, NoneIn, InSocket
  <2>3. Unread' BY <1>1, <1>3, <1>4, <2>2 DEF AtWrite, Still, Unread
  <2> QED BY <1>2, <2>3 DEF Phase, AtWait
<1>5. CASE conn # "open"
  <2>1. NoneIn' BY <1>1, <1>5 DEF AtWrite, Still, NoneIn
  <2>2. Lost' BY <1>1, <1>3, <1>5, <2>1 DEF AtWrite, Still, Lost
  <2> QED BY <1>2, <2>2 DEF Phase, AtWait
<1> QED BY <1>4, <1>5

\* wait_for_ack returns what the answers have left.
LEMMA WaitInv ==
    ASSUME Typed, Machine, Phase, wait_for_ack
    PROVE  Machine' /\ Phase'
<1> USE DEF wait_for_ack, Return, receiveVars, serverVars, eeVars
<1>1. (Still \/ Trailing) /\ Answered /\ Recorded BY DEF Phase, AtWait
<1>2. Machine' BY DEF Machine
<1>3. UNCHANGED <<Still, Trailing, Answered, Known, Resets>>
  BY DEF Still, Trailing, Answered, Known, Resets, NoneIn, Pipe, Fresh, Leaving, HasRun, Runs, Entered
<1>4. message_record' = <<>> /\ result' = Result(cmd, TRUE, IF cmd.kind = "test" THEN <<cmd.id>> ELSE <<>>)
  BY <1>1 DEF Recorded
<1>5. CASE Resets
  <2>1. cpc' = "disconnect" /\ ~ connected' /\ cmd.kind # "test" BY <1>5 DEF Resets
  <2>2. AtDisconnect' BY <1>1, <1>3, <1>4, <1>5, <2>1 DEF AtDisconnect
  <2>3. filter' = FALSE BY <2>1 DEF Phase, Typed, CompilerTyped
  <2> QED BY <1>2, <2>1, <2>2, <2>3 DEF Phase
<1>6. CASE ~ Resets
  <2>1. cpc' = "repl" /\ connected' = connected BY <1>6 DEF Resets, Typed, CompilerTyped
  <2>2. Still' /\ Known' BY <1>1, <1>3, <1>6 DEF Trailing, Answered
  <2>3. AtRepl' BY <1>1, <1>3, <1>4, <2>2 DEF AtRepl
  <2>4. filter' = FALSE BY DEF Phase, Typed, CompilerTyped
  <2> QED BY <1>2, <2>1, <2>3, <2>4 DEF Phase
<1> QED BY <1>5, <1>6

\* disconnect drops what a reset has left in the socket.
LEMMA DisconnectInv ==
    ASSUME Typed, Machine, Phase, disconnect
    PROVE  Machine' /\ Phase'
<1> USE DEF disconnect, receiveVars, serverVars, eeVars
<1>1. AtDisconnect BY DEF Phase
<1>2. conn' # "open" BY DEF Typed, ChannelTyped
<1>3. Machine' BY <1>2 DEF Machine
<1>4. UNCHANGED <<NoneIn, Fresh, Leaving, Resets, HasRun, Entered>>
  BY DEF NoneIn, Fresh, Leaving, Resets, HasRun, Entered, Runs
<1>5. toCompiler \in Seq(Answers) /\ outbox \in Seq(Answers) BY DEF Typed, ChannelTyped
<1>6. Pipe' = outbox BY <1>5, ConcatNone DEF Pipe
<1>7. (Still \/ Trailing)'
  <2>1. CASE Pipe = <<>>
    <3>1. Pipe' = <<>> BY <1>5, <1>6, <2>1, ConcatNone DEF Pipe
    <3> QED BY <1>1, <1>4, <2>1, <3>1, Tuples DEF AtDisconnect, Still, Trailing
  <2>2. ASSUME NEW n \in Nat, Fresh, NoneIn, Resets, Pipe = <<Output(<<Reset(n)>>)>> PROVE (Still \/ Trailing)'
    <3>1. CASE outbox = <<>> BY <1>4, <1>6, <2>2, <3>1 DEF Still
    <3>2. CASE outbox # <<>>
      <4>1. toCompiler = <<>> BY <1>5, <2>2, <3>2, ConcatOne DEF Pipe
      <4>2. Pipe = outbox BY <1>5, <4>1, ConcatNone DEF Pipe
      <4> QED BY <1>4, <1>6, <2>2, <4>2 DEF Trailing
    <3> QED BY <3>1, <3>2
  <2> QED BY <1>1, <2>1, <2>2 DEF AtDisconnect, Still, Trailing
<1>8. Answered' BY <1>1, <1>2, <1>4 DEF AtDisconnect, Answered
<1>9. result' = Result(cmd', TRUE, IF cmd'.kind = "test" THEN <<cmd'.id>> ELSE <<>>) BY <1>1
  DEF AtDisconnect, Resets
<1>10. ~ connected' /\ message_record' = <<>> BY <1>1 DEF AtDisconnect
<1>11. AtRepl' BY <1>7, <1>8, <1>9, <1>10 DEF AtRepl
<1>12. filter' = FALSE BY DEF Phase, Typed, CompilerTyped
<1> QED BY <1>3, <1>11, <1>12 DEF Phase

-----------------------------------------------------------------------------
(* Steps of the receive thread.                                            *)

\* A message is received only while the compiler waits; it is the first answer
\* to what was sent, or what a reset has left.
LEMMA ReceivedWhen ==
    ASSUME Typed, Machine, Phase, NEW k, Received(k), toCompiler' = Tail(toCompiler), outbox' = outbox
    PROVE  /\ cpc = "wait" /\ Head(toCompiler) = Head(Pipe) /\ Head(Pipe).kind = k /\ Pipe' = Tail(Pipe)
           /\ ~ got_ack => Answering
           /\ got_ack => /\ NoneIn /\ Resets /\ Fresh /\ Answered /\ Recorded
                         /\ \E n \in Nat : Pipe = <<Output(<<Reset(n)>>)>>
<1>1. toCompiler \in Seq(Answers) /\ outbox \in Seq(Answers) /\ toCompiler # <<>> BY
  DEF Received, Typed, ChannelTyped
<1>2. Pipe # <<>> /\ Head(Pipe) = Head(toCompiler) /\ Pipe' = Tail(Pipe) BY <1>1, ConcatHead DEF Pipe
<1>3. connected BY DEF Received
<1>4. cpc = "wait" /\ ~ Still
  BY <1>2, <1>3 DEF Phase, AtRepl, AtWrite, AtDisconnect, Still, Typed, CompilerTyped
<1>5. ~ got_ack => Answering BY <1>2, <1>4 DEF Phase, AtWait, Unread, Linked, Lost
<1>6. got_ack => /\ NoneIn /\ Resets /\ Fresh /\ Answered /\ Recorded
                 /\ \E n \in Nat : Pipe = <<Output(<<Reset(n)>>)>>
  BY <1>2, <1>4 DEF Phase, AtWait, Trailing
<1> QED BY <1>2, <1>4, <1>5, <1>6 DEF Received

\* Which answer comes first.
LEMMA FirstKinds ==
    /\ OutputFirst \/ PokeFirst => Head(Pipe).kind = "output"
    /\ PrintFirst => Head(Pipe).kind = "print"
    /\ AckFirst \/ ResetFirst => Head(Pipe).kind = "ack"
    /\ \A n : Pipe = <<Output(<<Reset(n)>>)>> => Head(Pipe).kind = "output"
<1>1. (\A lines : Output(lines).kind = "output") /\ (\A i : Ack(i).kind = "ack")
                                                    /\ (\A i : Printed(i).kind = "print")
  BY DEF Output, Ack, Printed
<1>2. ASSUME NEW a, NEW b, Pipe = <<a>> \/ Pipe = <<a, b>> \/ (\E c : Pipe = <<a, b, c>>) PROVE Head(Pipe) = a
  BY <1>2, Tuples
<1>3. OutputFirst => \E lines, b, c : Pipe = <<Output(lines), b, c>> BY DEF OutputFirst
<1>4. PokeFirst => \E lines, b : Pipe = <<Output(lines), b>> BY DEF PokeFirst
<1>5. PrintFirst => \E i, b : Pipe = <<Printed(i), b>> BY DEF PrintFirst
<1>6. AckFirst => \E i : Pipe = <<Ack(i)>> BY DEF AckFirst
<1>7. ResetFirst => \E i, b : Pipe = <<Ack(i)>> \/ Pipe = <<Ack(i), b>> BY DEF ResetFirst
<1> QED BY <1>1, <1>2, <1>3, <1>4, <1>5, <1>6, <1>7

\* receive_ack: the acknowledgement is the last answer, or all but the last of a reset.
LEMMA ReceiveAckInv ==
    ASSUME Typed, Machine, Phase, receive_ack
    PROVE  Machine' /\ Phase'
<1> USE DEF receive_ack, serverVars, eeVars
<1>1. /\ cpc = "wait" /\ Head(Pipe).kind = "ack" /\ Pipe' = Tail(Pipe)
      /\ ~ got_ack => Answering
      /\ got_ack => \E n \in Nat : Pipe = <<Output(<<Reset(n)>>)>>
  BY ReceivedWhen
<1>2. Machine' BY DEF Machine
<1>4. ~ got_ack BY <1>1, FirstKinds
<1>5. UNCHANGED <<NoneIn, Fresh, Leaving, Resets, Runs, HasRun, Entered, Recorded, Known>>
  BY DEF NoneIn, Fresh, Leaving, Resets, HasRun, Entered, Runs, Recorded, Known
<1>6. NoneIn /\ HasRun /\ (conn = "open" => status) BY <1>1, <1>4 DEF Answering
<1>7. AckFirst \/ ResetFirst
  BY <1>1, <1>4, FirstKinds DEF Answering
<1>8. CASE AckFirst
  <2>1. Pipe' = <<>> BY <1>1, <1>8, Tuples DEF AckFirst
  <2>2. Still' BY <1>5, <1>6, <1>8, <2>1 DEF AckFirst, Still
  <2>3. Answered' /\ Recorded' BY <1>5, <1>6, <1>8 DEF AckFirst, Answered
  <2>4. AtWait' BY <2>2, <2>3 DEF AtWait
  <2> QED BY <1>1, <1>2, <2>4 DEF Phase
<1>9. CASE ResetFirst
  <2>1. Resets /\ message_record = <<>> BY <1>9 DEF ResetFirst
  <2>2. Answered' BY <1>5, <1>6, <2>1 DEF Answered, Entered, Resets
  <2>3. Recorded' BY <2>1 DEF Recorded, Resets
  <2>4. (Still \/ Trailing)'
    <3>1. CASE Pipe = <<Ack(cmd.id)>>
      <4>1. Pipe' = <<>> BY <1>1, <3>1, Tuples
      <4>2. Fresh \/ Leaving BY <1>9 DEF ResetFirst
      <4> QED BY <1>5, <1>6, <2>1, <4>1, <4>2 DEF Still, Trailing
    <3>2. CASE Fresh /\ \E n \in Nat : Pipe = <<Ack(cmd.id), Output(<<Reset(n)>>)>>
      <4>1. PICK n \in Nat : Pipe = <<Ack(cmd.id), Output(<<Reset(n)>>)>> BY <3>2
      <4>2. Pipe' = <<Output(<<Reset(n)>>)>> BY <1>1, <4>1, Tuples
      <4> QED BY <1>5, <1>6, <2>1, <3>2, <4>2 DEF Trailing
    <3> QED BY <1>9, <3>1, <3>2 DEF ResetFirst
  <2>5. AtWait' BY <2>2, <2>3, <2>4 DEF AtWait
  <2> QED BY <1>1, <1>2, <2>5 DEF Phase
<1> QED BY <1>7, <1>8, <1>9

\* receive_print: a test records what its own code has printed.
LEMMA ReceivePrintInv ==
    ASSUME Typed, Machine, Phase, receive_print
    PROVE  Machine' /\ Phase'
<1> USE DEF receive_print, serverVars, eeVars, receiveVars
<1>1. /\ cpc = "wait" /\ Head(Pipe).kind = "print" /\ Pipe' = Tail(Pipe) /\ Head(toCompiler) = Head(Pipe)
      /\ ~ got_ack => Answering
      /\ got_ack => \E n \in Nat : Pipe = <<Output(<<Reset(n)>>)>>
  BY ReceivedWhen
<1>2. Machine' BY DEF Machine
<1>4. ~ got_ack BY <1>1, FirstKinds
<1>5. UNCHANGED <<NoneIn, Fresh, Resets, Runs, HasRun, Entered, Known>>
  BY DEF NoneIn, Fresh, Resets, HasRun, Entered, Runs, Known
<1>6. NoneIn /\ HasRun /\ (conn = "open" => status) /\ (outbox # <<>> => conn = "open") BY <1>1, <1>4
  DEF Answering
<1>7. PrintFirst
  BY <1>1, <1>4, FirstKinds DEF Answering
<1>8. Head(toCompiler).lines = <<cmd.id>> /\ Pipe' = <<Ack(cmd.id)>> BY <1>1, <1>7, Tuples
  DEF PrintFirst, Printed
<1>9. Recorded'
  <2>1. message_record' = IF filter THEN <<>> \o <<cmd.id>> ELSE <<>> BY <1>7, <1>8 DEF PrintFirst
  <2>2. filter <=> cmd.kind = "test" BY <1>1 DEF Phase
  <2> QED BY <2>1, <2>2, Tuples DEF Recorded
<1>10. ~ Resets BY <1>7 DEF PrintFirst, Runs, Resets
<1>11. AckFirst' BY <1>5, <1>7, <1>8, <1>9, <1>10 DEF AckFirst, PrintFirst
<1>12. Answering' BY <1>5, <1>6, <1>11 DEF Answering
<1> QED BY <1>1, <1>2, <1>4, <1>12 DEF Phase, AtWait

\* The first load of these reports.
LEMMA FirstLoad ==
    ASSUME NEW n, NEW i, NEW lines, lines = <<Load(i)>> \/ lines = <<Reset(n), Load(i)>>
    PROVE  /\ \E k \in DOMAIN lines : lines[k].kind = "load"
           /\ add_load(lines) = IF pending_name # NoName THEN [load_entries EXCEPT ![pending_name] = i] ELSE load_entries
<1> DEFINE loads == {k \in DOMAIN lines : lines[k].kind = "load"}
           first == CHOOSE k \in loads : \A j \in loads : k <= j
<1>1. \E k \in Nat : loads = {k} /\ k \in DOMAIN lines /\ lines[k].of = i
  <2>1. CASE lines = <<Load(i)>>
    <3>1. DOMAIN lines = {1} /\ lines[1].kind = "load" /\ lines[1].of = i BY <2>1 DEF Load
    <3> QED BY <3>1
  <2>2. CASE lines = <<Reset(n), Load(i)>>
    <3>1. DOMAIN lines = {1, 2} /\ lines[1].kind = "reset" /\ lines[2].kind = "load" /\ lines[2].of = i
      BY <2>2 DEF Load, Reset
    <3> QED BY <3>1
  <2> QED BY <2>1, <2>2
<1>2. PICK k \in Nat : loads = {k} /\ k \in DOMAIN lines /\ lines[k].of = i BY <1>1
<1>3. k \in loads /\ \A j \in loads : k <= j BY <1>2
<1>4. first \in loads BY <1>3
<1>5. lines[first].of = i /\ loads # {} BY <1>2, <1>4
<1>6. add_load(lines) = IF pending_name # NoName /\ loads # {}
                        THEN [load_entries EXCEPT ![pending_name] = lines[first].of] ELSE load_entries
  BY DEF add_load
<1>7. \E m \in DOMAIN lines : lines[m].kind = "load" BY <1>3
<1> HIDE DEF loads, first
<1> QED BY <1>5, <1>6, <1>7

\* receive_output: the name that is pending is the one of the code that was loaded.
LEMMA ReceiveOutputInv ==
    ASSUME Typed, Machine, Phase, receive_output
    PROVE  Machine' /\ Phase'
<1> USE DEF receive_output, serverVars, eeVars, compilerVars
<1>1. /\ cpc = "wait" /\ Head(Pipe).kind = "output" /\ Pipe' = Tail(Pipe) /\ Head(toCompiler) = Head(Pipe)
      /\ ~ got_ack => Answering
      /\ got_ack => /\ NoneIn /\ Resets /\ Fresh /\ Answered /\ Recorded
                    /\ \E n \in Nat : Pipe = <<Output(<<Reset(n)>>)>>
  BY ReceivedWhen
<1>2. Machine' BY DEF Machine
<1>4. UNCHANGED <<NoneIn, Fresh, Resets, Runs, HasRun, Recorded, Leaving>>
  BY DEF NoneIn, Fresh, Resets, HasRun, Runs, Recorded, Leaving
<1>5. CASE got_ack
  <2>1. Pipe' = <<>> BY <1>1, <1>5, Tuples
  <2>2. Still' BY <1>1, <1>4, <1>5, <2>1 DEF Still
  <2>3. Answered' /\ Recorded' BY <1>1, <1>4, <1>5 DEF Answered, Entered, Resets
  <2> QED BY <1>1, <1>2, <1>5, <2>2, <2>3 DEF Phase, AtWait
<1>6. CASE ~ got_ack
  <2>1. NoneIn /\ HasRun /\ (conn = "open" => status) /\ (outbox # <<>> => conn = "open") BY <1>1, <1>6
    DEF Answering
  <2>2. OutputFirst \/ PokeFirst
    BY <1>1, <1>6, FirstKinds DEF Answering
  <2>3. PICK lines : lines = Head(toCompiler).lines OBVIOUS
  <2>4. CASE OutputFirst
    <3>a. PICK n : \/ Pipe = <<Output(<<Load(cmd.id)>>), Printed(cmd.id), Ack(cmd.id)>> /\ Known
                   \/ /\ Pipe = <<Output(<<Reset(n), Load(cmd.id)>>), Printed(cmd.id), Ack(cmd.id)>>
                      /\ conn = "open" => n = boots
      BY <2>4 DEF OutputFirst
    <3>b. \A ls : Output(ls).lines = ls BY DEF Output
    <3>1. /\ (lines = <<Load(cmd.id)>> /\ Known) \/ (lines = <<Reset(n), Load(cmd.id)>> /\ (conn = "open" => n = boots))
          /\ Pipe' = <<Printed(cmd.id), Ack(cmd.id)>>
      <4>1. PICK b, c : b = Printed(cmd.id) /\ c = Ack(cmd.id) OBVIOUS
      <4>2. ASSUME NEW ls, Pipe = <<Output(ls), b, c>> PROVE lines = ls /\ Pipe' = <<b, c>>
        BY <1>1, <2>3, <3>b, <4>2, Tuples
      <4> QED BY <3>a, <4>1, <4>2
    <3>c. context' = IF lines[1].kind = "reset" THEN lines[1].of ELSE context BY <2>3
    <3>2. Known'
      <4>1. CASE lines = <<Load(cmd.id)>> /\ Known
        <5>1. lines[1].kind = "load" BY <4>1 DEF Load
        <5> QED BY <3>c, <4>1, <5>1 DEF Known
      <4>2. CASE lines = <<Reset(n), Load(cmd.id)>> /\ (conn = "open" => n = boots)
        <5>1. lines[1].kind = "reset" /\ lines[1].of = n BY <4>2 DEF Reset
        <5> QED BY <3>c, <4>2, <5>1 DEF Known
      <4> QED BY <3>1, <4>1, <4>2
    <3>3. Entered'
      <4>1. load_entries' = IF pending_name # NoName THEN [load_entries EXCEPT ![pending_name] = cmd.id] ELSE load_entries
        BY <2>3, <3>1, FirstLoad
      <4>2. pending_name = cmd.name BY <2>4 DEF OutputFirst
      <4> QED BY <4>1, <4>2 DEF Entered, Typed, CompilerTyped
    <3>4. PrintFirst' BY <1>4, <2>4, <3>1, <3>2, <3>3 DEF PrintFirst, OutputFirst
    <3>5. Answering' BY <1>4, <2>1, <3>4 DEF Answering
    <3> QED BY <1>1, <1>2, <1>6, <3>5 DEF Phase, AtWait
  <2>5. CASE PokeFirst
    <3>1. PICK n \in Nat : /\ Pipe = <<Output(<<Reset(n)>>), Ack(cmd.id)>>
                              /\ (conn = "open" => n = boots) BY <2>5 DEF PokeFirst
    <3>2. lines = <<Reset(n)>> /\ Pipe' = <<Ack(cmd.id)>> BY <1>1, <2>3, <3>1, Tuples DEF Output
    <3>3. lines[1].kind = "reset" /\ lines[1].of = n BY <3>2 DEF Reset
    <3>4. Known' BY <2>3, <3>1, <3>3 DEF Known
    <3>5. Entered' /\ Recorded' /\ ~ Resets' BY <2>5 DEF PokeFirst, Entered, Recorded, Resets
    <3>6. AckFirst' BY <1>4, <2>5, <3>2, <3>4, <3>5 DEF AckFirst, PokeFirst
    <3>7. Answering' BY <1>4, <2>1, <3>6 DEF Answering
    <3> QED BY <1>1, <1>2, <1>6, <3>7 DEF Phase, AtWait
  <2> QED BY <2>2, <2>4, <2>5
<1> QED BY <1>5, <1>6

\* receive_end: only the thread is gone.
LEMMA ReceiveEndInv ==
    ASSUME Typed, Machine, Phase, receive_end
    PROVE  Machine' /\ Phase'
<1> USE DEF receive_end, serverVars, eeVars, compilerVars, receiveVars
<1>1. Machine' BY DEF Machine
<1>2. UNCHANGED <<Still, Trailing, Answered, Known, Resets, Before, Runs, Recorded>>
  BY DEF Still, Trailing, Answered, Known, Resets, NoneIn, Pipe, Fresh, Leaving, HasRun, Runs, Entered,
       Before, Recorded
<1>3. UNCHANGED <<Unread, Linked, Answering, Lost>>
  BY DEF Unread, Linked, Answering, Lost, OutputFirst, PrintFirst, PokeFirst, AckFirst, ResetFirst,
       InSocket,
         InBuffer, InProto, Known, Resets, NoneIn, Pipe, Fresh, Leaving, HasRun, Runs, Entered, Before,
              Recorded
<1>4. ~ connected' OBVIOUS
<1>5. cpc = "repl" => AtRepl' BY <1>2, <1>4 DEF Phase, AtRepl
<1>6. cpc = "write" => AtWrite' BY <1>2 DEF Phase, AtWrite
<1>7. cpc = "wait" => AtWait' BY <1>2, <1>3 DEF Phase, AtWait
<1>8. cpc = "disconnect" => AtDisconnect' BY <1>2, <1>4 DEF Phase, AtDisconnect
<1> QED BY <1>1, <1>5, <1>6, <1>7, <1>8 DEF Phase

-----------------------------------------------------------------------------
(* The theorem.                                                            *)

\* The invariant holds at first ...
LEMMA InitInv == Init => ListenerInv
<1> SUFFICES ASSUME Init PROVE ListenerInv OBVIOUS
<1>1. Typed BY InitTyped
<1>2. Machine BY DEF Init, Machine, None
<1>3. NoneIn /\ Fresh /\ Known BY DEF Init, NoneIn, Fresh, Known
<1>4. Pipe = <<>> BY DEF Init, Pipe
<1>5. AtRepl BY <1>3, <1>4 DEF Init, AtRepl, Still
<1>6. Phase BY <1>5 DEF Init, Phase, NoMsg
<1>7. Increasing BY DEF Init, Increasing
<1> QED BY <1>1, <1>2, <1>6, <1>7 DEF ListenerInv

\* ... and is kept by every step,
LEMMA NextInv ==
    ASSUME ListenerInv, [Next]_vars
    PROVE  ListenerInv'
<1>1. CASE UNCHANGED vars
  <2> USE <1>1 DEF vars, compilerVars, receiveVars, serverVars, eeVars
  <2>1. Typed' BY DEF ListenerInv, Typed, CompilerTyped, ChannelTyped, EETyped
  <2>2. Machine => Machine' BY DEF Machine
  <2>3. Increasing => Increasing' BY DEF Increasing
  <2>4. Phase => Phase'
    <3>1. UNCHANGED <<Still, Trailing, Answered, Known, Resets, Before, Runs, Recorded>>
      BY DEF Still, Trailing, Answered, Known, Resets, NoneIn, Pipe, Fresh, Leaving, HasRun, Runs,
           Entered, Before, Recorded
    <3>2. UNCHANGED <<Unread, Linked, Answering, Lost>>
      BY DEF Unread, Linked, Answering, Lost, OutputFirst, PrintFirst, PokeFirst, AckFirst, ResetFirst,
           InSocket,
             InBuffer, InProto, Known, Resets, NoneIn, Pipe, Fresh, Leaving, HasRun, Runs, Entered,
                  Before, Recorded
    <3> QED BY <3>1, <3>2 DEF Phase, AtRepl, AtWrite, AtWait, AtDisconnect
  <2> QED BY <2>1, <2>2, <2>3, <2>4 DEF ListenerInv
<1>2. CASE Next
  <2>1. Typed BY DEF ListenerInv
  <2>2. Typed' BY <1>2, <2>1, CompilerTypes, ReceiveTypes, Deci2Types, EETypes DEF Next
  <2>3. ASSUME patient' PROVE Machine' /\ Phase' /\ Increasing'
    <3>1. patient
      <4>1. CASE TimedOut BY <2>3, <4>1 DEF TimedOut
      <4>2. CASE ~ TimedOut
        <5>1. User \/ Compiler => UNCHANGED patient
          BY <4>2 DEF User, Compiler, BeginSend, connect_to_target, send_buffer, wait_for_ack, disconnect
        <5>2. Receive \/ Deci2 => UNCHANGED patient
          BY DEF Receive, receive_ack, receive_print, receive_output, receive_end, Deci2, ReadHead,
               ReadDone, compilerVars
        <5>3. EE => UNCHANGED patient
          BY DEF EE, InitGoalProto, reset_output, ReceiveToBuffer, MarkReceived, NoMessage,
               ProcessListenerMessage,
                 LinkCode, SendFromBufferD, AllSent, Restart, Dispatch, eeKeeps, compilerVars
        <5> QED BY <1>2, <2>3, <5>1, <5>2, <5>3 DEF Next
      <4> QED BY <4>1, <4>2
    <3>2. Machine /\ Phase /\ Increasing BY <3>1 DEF ListenerInv
    <3>3. CASE User BY <2>1, <3>2, <3>3, BeginSendInv DEF User
    <3>4. CASE Compiler
      <4>1. ~ TimedOut BY <2>3 DEF TimedOut
      <4>2. Machine' /\ Phase'
        BY <2>1, <3>2, <3>4, <4>1, ConnectInv, SendBufferInv, WaitInv, DisconnectInv DEF Compiler
      <4>3. UNCHANGED <<ran, last_sent_id>>
        BY <3>4, <4>1 DEF Compiler, connect_to_target, send_buffer, wait_for_ack, Return, disconnect, eeVars
      <4> QED BY <3>2, <4>2, <4>3 DEF Increasing
    <3>5. CASE Receive
      <4>1. Machine' /\ Phase'
        BY <2>1, <3>2, <3>5, ReceiveAckInv, ReceivePrintInv, ReceiveOutputInv, ReceiveEndInv DEF Receive
      <4>2. UNCHANGED <<ran, last_sent_id>>
        BY <3>5 DEF Receive, receive_ack, receive_print, receive_output, receive_end, eeVars, compilerVars
      <4> QED BY <3>2, <4>1, <4>2 DEF Increasing
    <3>6. CASE Deci2
      <4>1. Keeps /\ Machine' /\ UNCHANGED <<compilerVars, receiveVars, connected, pending_name, ran>>
        BY <2>1, <3>2, <3>6, Deci2Keeps
      <4>2. Phase' BY <3>2, <4>1, KeepsPhase
      <4> QED BY <3>2, <4>1, <4>2 DEF Increasing, compilerVars
    <3>7. CASE EE BY <2>1, <3>2, <3>7, EEKeeps
    <3> QED BY <1>2, <3>3, <3>4, <3>5, <3>6, <3>7 DEF Next
  <2> QED BY <2>2, <2>3 DEF ListenerInv
<1> QED BY <1>1, <1>2

\* so it always holds.
LEMMA ListenerAlways == Spec => []ListenerInv
  BY InitInv, NextInv, PTL DEF Spec

\* What code, a test or a poke has told the compiler when it has returned.
LEMMA WhenReturned ==
    ASSUME ListenerInv, patient, cpc = "repl", result.kind # "none"
    PROVE  /\ Answered
           /\ result.kind = cmd.kind /\ result.id = cmd.id /\ result.name = cmd.name /\ result.acked
           /\ result.record = IF cmd.kind = "test" THEN <<cmd.id>> ELSE <<>>
<1>1. AtRepl BY DEF ListenerInv, Phase
<1>2. result # NoResult BY DEF NoResult, Result, NoMsg
<1>3. Answered /\ result = Result(cmd, TRUE, IF cmd.kind = "test" THEN <<cmd.id>> ELSE <<>>)
  BY <1>1, <1>2 DEF AtRepl
<1> QED BY <1>3 DEF Result

\* Whatever the names, and however many messages are sent: an answer belongs
\* to the message it is taken for (receive_func, KernelCheckAndDispatch).
THEOREM AnswersSafety == Spec => []AnswersMatch
<1>1. ListenerInv => AnswersMatch
  <2> SUFFICES ASSUME ListenerInv PROVE AnswersMatch OBVIOUS
  <2>1. TypeOK
    <3>1. \A o \in Seq(Reports) : o \in Seq(Lines)
      <4>1. Reports \subseteq Lines BY ListenerAssumption DEF Reports, Lines
      <4> QED BY <4>1, SeqMonotonic
    <3> QED BY <3>1 DEF ListenerInv, Typed, CompilerTyped, ChannelTyped, EETyped, TypeOK
  <2>2. AckedCodeHasRun
    <3>1. ASSUME Returned({"code", "test"}) PROVE result.acked /\ ran # <<>> /\ Last(ran) = result.id
      BY <3>1, WhenReturned DEF Answered, HasRun, Runs, Last, Returned
    <3>2. patient => \A i, j \in DOMAIN ran : i < j => ran[i] < ran[j] BY DEF ListenerInv, Increasing
    <3> QED BY <3>1, <3>2 DEF AckedCodeHasRun
  <2>3. TestSeesItsPrints BY WhenReturned DEF TestSeesItsPrints, Returned
  <2>4. LoadUnderItsName BY WhenReturned DEF LoadUnderItsName, Answered, Entered, Returned
  <2> QED BY <2>1, <2>2, <2>3, <2>4 DEF AnswersMatch
<1> QED BY <1>1, ListenerAlways, PTL

\* The debugger never works with the addresses of an earlier run of the target.
THEOREM ContextSafety == Spec => []ContextIsCurrent
<1>1. ListenerInv => ContextIsCurrent
  <2> SUFFICES ASSUME ListenerInv, Returned({"code", "test", "poke"}), conn = "open" PROVE context = boots
    BY DEF ContextIsCurrent
  <2>1. Answered /\ ~ Resets BY WhenReturned DEF Returned, Resets
  <2> QED BY <2>1 DEF Answered, Known
<1> QED BY <1>1, ListenerAlways, PTL
=============================================================================

------------------------------- MODULE Proxy -------------------------------
(***************************************************************************)
(* evidra-mcp as a proxy in front of another MCP server: one goroutine      *)
(* relays the client's messages upstream and records a prescription for a   *)
(* tool call that changes something, another relays what comes back and     *)
(* records a report, and the table of pending calls is all they share.      *)
(* Entries go to a file of the proxy's own, not to the evidence store.      *)
(*                                                                          *)
(* Calls are numbered in the order the proxy reads them; a prescription is  *)
(* named by the number of its call.                                         *)
(***************************************************************************)
EXTENDS Integers, Sequences

CONSTANTS
    RpcIds,       \* JSON-RPC ids; client and upstream number their requests independently
    CallKinds,    \* tool calls: a "command", a mutating "tool" by its name, or "other"
    Answers,      \* what upstream answers
    MaxRpc,       \* bound: calls of the client
    MaxAsks,      \* bound: requests of upstream to the client
    MaxProxyFaults  \* bound: failed writes and upstream's death

ASSUME ProxyAssumption ==
    /\ RpcIds \subseteq Nat /\ CallKinds \subseteq {"command", "tool", "other"}
    /\ Answers \subseteq
          [error: BOOLEAN, code: {"none", "zero", "nonzero"}, isError: BOOLEAN]
    /\ {MaxRpc, MaxAsks, MaxProxyFaults} \subseteq Nat

VARIABLES
    rpc,      \* the calls of the client
    line,     \* the call the request relay has in hand (0: none) and the step it is at
    pending,  \* Proxy.pending: for an id the prescription that waits (0: none)
    file,     \* the proxy's evidence file
    working,  \* calls upstream works on
    out,      \* upstream's output, not yet read
    hand,     \* what the response relay has in hand
    got,      \* calls whose answer the client has
    asks, proxyFaults,
    answered, \* history: the answer of each call that has one
    crossed   \* history: calls whose entry a request of upstream took

proxyHistory == <<answered, crossed>>
proxyVars == <<rpc, line, pending, file, working, out, hand, got, asks, proxyFaults,
               proxyHistory>>

Calls == 1..Len(rpc)
NoLine == [call |-> 0, step |-> 1, relaying |-> TRUE]
Closed == [call |-> 0, step |-> 1, relaying |-> FALSE]
NoHand == [pc |-> "read", call |-> 0, of |-> 0, exit |-> "zero"]
NoAnswer == [error |-> FALSE, code |-> "none", isError |-> FALSE]

ProxyInit ==
    /\ rpc = <<>> /\ line = NoLine /\ pending = [i \in RpcIds |-> 0] /\ file = <<>>
    /\ working = {} /\ out = <<>> /\ hand = NoHand /\ got = {}
    /\ asks = 0 /\ proxyFaults = 0 /\ answered = {} /\ crossed = {}

-----------------------------------------------------------------------------
(* Client to upstream                                                       *)

\* A command of run_command or, when that is no mutation, the name of the tool
Tracked(kind) == kind \in {"command", "tool"}

TrackAfterwards == <<"prescribe", "forward", "track">>
Steps == <<"prescribe", "track", "forward">>
AtStep(s) == line.call # 0 /\ Steps[line.step] = s
Advance ==
    line' = IF line.step = Len(Steps) THEN NoLine ELSE [line EXCEPT !.step = @ + 1]

\* The client does not use the id of a call that has no answer yet.
ReadCall(id, kind) ==
    /\ line.relaying /\ line.call = 0 /\ Len(rpc) < MaxRpc
    /\ \A n \in Calls \ got : rpc[n].id # id
    /\ rpc' = Append(rpc, [id |-> id, kind |-> kind])
    /\ line' = [line EXCEPT !.call = Len(rpc) + 1]
    /\ UNCHANGED <<pending, file, working, out, hand, got>>
    /\ UNCHANGED <<asks, proxyFaults, proxyHistory>>

\* EvidenceWriter.write drops an entry that cannot be written.
Write(e) ==
    \/ file' = Append(file, e) /\ UNCHANGED proxyFaults
    \/ proxyFaults < MaxProxyFaults /\ proxyFaults' = proxyFaults + 1 /\ UNCHANGED file

RecordPrescription ==
    /\ AtStep("prescribe") /\ Advance
    /\ IF Tracked(rpc[line.call].kind)
       THEN Write([type |-> "prescribe", of |-> line.call, exit |-> "zero"])
       ELSE UNCHANGED <<file, proxyFaults>>
    /\ UNCHANGED <<rpc, pending, working, out, hand, got, asks, proxyHistory>>
Track ==
    /\ AtStep("track") /\ Advance
    /\ pending' = IF Tracked(rpc[line.call].kind)
                  THEN [pending EXCEPT ![rpc[line.call].id] = line.call] ELSE pending
    /\ UNCHANGED <<rpc, file, working, out, hand, got, asks, proxyFaults, proxyHistory>>
ForwardCall ==
    /\ AtStep("forward") /\ Advance /\ working' = working \cup {line.call}
    /\ UNCHANGED <<rpc, pending, file, out, hand, got, asks, proxyFaults, proxyHistory>>
\* Upstream is gone: the relay ends, and what it recorded stays.
ForwardFails ==
    /\ AtStep("forward") /\ proxyFaults < MaxProxyFaults /\ proxyFaults' = proxyFaults + 1
    /\ line' = Closed
    /\ UNCHANGED <<rpc, pending, file, working, out, hand, got, asks, proxyHistory>>

-----------------------------------------------------------------------------
(* Upstream answers in any order, and may ask the client something meanwhile. *)
AnswerCall(n, a) ==
    /\ n \in working /\ working' = working \ {n}
    /\ out' = Append(out, [id |-> rpc[n].id, call |-> n, answer |-> a])
    /\ answered' = answered \cup {[call |-> n, answer |-> a]}
    /\ UNCHANGED <<rpc, line, pending, file, hand, got, asks, proxyFaults, crossed>>
AskClient(id) ==
    /\ asks < MaxAsks /\ asks' = asks + 1
    /\ out' = Append(out, [id |-> id, call |-> 0, answer |-> NoAnswer])
    /\ UNCHANGED <<rpc, line, pending, file, working, hand, got>>
    /\ UNCHANGED <<proxyFaults, proxyHistory>>
UpstreamDies ==
    /\ working # {} /\ working' = {}
    /\ proxyFaults < MaxProxyFaults /\ proxyFaults' = proxyFaults + 1
    /\ UNCHANGED <<rpc, line, pending, file, out, hand, got, asks, proxyHistory>>

-----------------------------------------------------------------------------
(* Upstream to client                                                       *)

\* An error, an exit code in the structured or else in the text content, or the
\* error flag, in this order
ExitCode(a) ==
    IF a.error THEN "nonzero" ELSE IF a.code # "none" THEN a.code
    ELSE IF a.isError THEN "nonzero" ELSE "zero"

\* Whatever has an id is taken for a response.
Matched(id) == [pending EXCEPT ![id] = 0]
ReadResponse ==
    /\ hand.pc = "read" /\ out # <<>> /\ out' = Tail(out)
    /\ LET m == Head(out) IN
          /\ hand' = [pc |-> IF pending[m.id] # 0 THEN "report" ELSE "deliver",
                      call |-> m.call, of |-> pending[m.id], exit |-> ExitCode(m.answer)]
          /\ pending' = Matched(m.id)
          /\ crossed' = IF m.call # 0 THEN crossed
                        ELSE crossed \cup ({pending[m.id]} \ {0})
    /\ UNCHANGED <<rpc, line, file, working, got, asks, proxyFaults, answered>>
RecordReport ==
    /\ hand.pc = "report" /\ hand' = [hand EXCEPT !.pc = "deliver"]
    /\ Write([type |-> "report", of |-> hand.of, exit |-> hand.exit])
    /\ UNCHANGED <<rpc, line, pending, working, out, got, asks, proxyHistory>>
Deliver ==
    /\ hand.pc = "deliver" /\ hand' = NoHand
    /\ got' = got \cup ({hand.call} \ {0})
    /\ UNCHANGED <<rpc, line, pending, file, working, out>>
    /\ UNCHANGED <<asks, proxyFaults, proxyHistory>>

ProxyNext ==
    \/ \E id \in RpcIds : AskClient(id) \/ \E kind \in CallKinds : ReadCall(id, kind)
    \/ RecordPrescription \/ Track \/ ForwardCall \/ ForwardFails
    \/ \E n \in working, a \in Answers : AnswerCall(n, a)
    \/ UpstreamDies \/ ReadResponse \/ RecordReport \/ Deliver

-----------------------------------------------------------------------------
InFile(type, n) == \E k \in 1..Len(file) : file[k].type = type /\ file[k].of = n

\* A call is reported at most once and with the exit code of its own answer,
\* unless a request of upstream with the same id came first: "Only match
\* responses", but the relay does not look at the method.
OwnOutcomes ==
    \A k \in 1..Len(file) : file[k].type = "report" =>
        /\ \A j \in 1..k-1 : file[j].type = "report" => file[j].of # file[k].of
        /\ \/ file[k].of \in crossed
           \/ \E r \in answered : r.call = file[k].of /\ ExitCode(r.answer) = file[k].exit

\* Unless something failed, upstream sees no mutation that is not prescribed,
\* and the client no answer to one that is not reported.
MutationsTracked ==
    \A n \in Calls : (Tracked(rpc[n].kind) /\ proxyFaults = 0) =>
        /\ n \in working \cup {r.call : r \in answered} => InFile("prescribe", n)
        /\ n \in got => InFile("report", n)

\* What the evidence of a proxied session is worth: every mutation is in it
\* (MutationsTracked), with the outcome that was its own (OwnOutcomes).
RelaysSound == OwnOutcomes /\ MutationsTracked
=============================================================================

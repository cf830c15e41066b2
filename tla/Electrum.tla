------------------------------ MODULE Electrum ------------------------------
(***************************************************************************)
(* The Electrum client: one socket, one request at a time, one JSON line    *)
(* per answer.                                                              *)
(*                                                                          *)
(* The server answers requests in any order or never and pushes              *)
(* notifications in between; a read ends after 30 seconds without data, also *)
(* in the middle of a line, and after MAX_REPLY_BYTES of a line.  What was   *)
(* read of such a line is lost and the rest of it is still to come.  A       *)
(* command whose call fails ends, except that process_payouts defers a       *)
(* payout and goes on with the same client.                                  *)
(*                                                                          *)
(* A session: server.version, the header of block 0, the txids of a block    *)
(* by position until there is none, then the calls of process_payouts.       *)
(* Other calls that end the command on failure are like that of version.     *)
(***************************************************************************)
EXTENDS Integers, Sequences

CONSTANTS
  Networks,     \* the chains a server may follow
  Expected,     \* the one the command is for
  MaxBlockTxs,  \* MAX_BLOCK_TXS
  MaxTxs,       \* bound: transactions of the block
  MaxId,        \* bound: calls of a session
  MaxPushes,    \* bound: notifications
  MaxLine       \* bound: longest line, in units of MAX_REPLY_BYTES

ASSUME ElectrumConstants ==
  /\ Expected \in Networks
  /\ {MaxBlockTxs, MaxTxs, MaxId, MaxPushes} \subseteq Nat
  /\ MaxLine \in Nat \ {0}

VARIABLES
  net,      \* the server's chain
  txs,      \* transactions of the block
  asked,    \* requests the server has not answered
  wire,     \* lines on their way to the client, oldest first
  closed,   \* the server closed the connection
  pushes,   \* notifications pushed
  next_id,
  stage,    \* what the command asks for, "end" when it has ended
  request,  \* the last request written
  waiting,  \* a call has not returned
  out,      \* the block's txids so far, as positions
  got,      \* history: request and answer of the last call that returned one
  torn,     \* history: calls that gave up inside a line
  spoiled   \* history: calls that met a line that is not JSON

server == <<net, txs, asked, wire, closed, pushes>>
client == <<next_id, stage, request, waiting, out, got, torn, spoiled>>
session == <<server, client>>

-----------------------------------------------------------------------------

Fatal == {"version", "genesis", "txid"}
Stages == Fatal \cup {"pay", "end"}
What == [op : Stages, n : Nat]
NoWhat == [op |-> "end", n |-> 0]
Request == [id : Nat, what : What]
Line == [id : Nat, what : What, kind : {"ok", "none", "error", "push", "tail"},
         size : Nat \ {0}]

Push == [id |-> 0, what |-> NoWhat, kind |-> "push", size |-> 1]
Rest(n) == [id |-> 0, what |-> NoWhat, kind |-> "tail", size |-> n]

(* A result, an error, or "No transaction at position".                    *)
Kinds(what) ==
  {"error", IF what.op = "txid" /\ what.n >= txs THEN "none" ELSE "ok"}

-----------------------------------------------------------------------------
(* The server.                                                             *)

Reply(q) ==
  /\ ~closed
  /\ asked' = asked \ {q}
  /\ \E kind \in Kinds(q.what), n \in 1..MaxLine :
       wire' = Append(wire, [id |-> q.id, what |-> q.what, kind |-> kind, size |-> n])
  /\ UNCHANGED <<net, txs, closed, pushes, client>>

Notify ==
  /\ ~closed /\ pushes < MaxPushes
  /\ pushes' = pushes + 1
  /\ wire' = Append(wire, Push)
  /\ UNCHANGED <<net, txs, asked, closed, client>>

Close ==
  /\ ~closed
  /\ closed' = TRUE
  /\ UNCHANGED <<net, txs, asked, wire, pushes, client>>

-----------------------------------------------------------------------------
(* The client.                                                             *)

Ask(n) == [op |-> stage, n |-> IF stage = "txid" THEN Len(out) ELSE n]

Send ==
  /\ ~waiting /\ stage # "end" /\ next_id < MaxId
  /\ stage = "txid" => Len(out) < MaxBlockTxs
  /\ next_id' = next_id + 1
  /\ request' = Ask(next_id')
  /\ asked' = asked \cup {[id |-> next_id', what |-> request']}
  /\ waiting' = TRUE
  /\ UNCHANGED <<net, txs, wire, closed, pushes, stage, out, got, torn, spoiled>>

BlockTooLarge ==
  /\ ~waiting /\ stage = "txid" /\ Len(out) >= MaxBlockTxs
  /\ stage' = "end"
  /\ UNCHANGED <<server, next_id, request, waiting, out, got, torn, spoiled>>

(* An error of a call: the payout is deferred, any other command ends.      *)
Fail ==
  /\ waiting' = FALSE
  /\ stage' = IF stage \in Fatal THEN "end" ELSE stage

Timeout ==
  /\ waiting /\ wire = <<>>
  /\ Fail
  /\ UNCHANGED <<server, next_id, request, out, got, torn, spoiled>>

(* The server stalls within a line; the client has read the first part.    *)
TimeoutInLine ==
  /\ waiting /\ wire = <<>> /\ ~closed
  /\ \/ \E q \in asked : asked' = asked \ {q} /\ UNCHANGED pushes
     \/ pushes < MaxPushes /\ pushes' = pushes + 1 /\ UNCHANGED asked
  /\ \E n \in 1..MaxLine : wire' = <<Rest(n)>>
  /\ Fail
  /\ torn' = torn + 1
  /\ UNCHANGED <<net, txs, closed, next_id, request, out, got, spoiled>>

(* "Fulcrum closed the connection", also when the write fails.              *)
Eof ==
  /\ waiting /\ wire = <<>> /\ closed
  /\ Fail
  /\ UNCHANGED <<server, next_id, request, out, got, torn, spoiled>>

Read == waiting /\ wire # <<>>
Consume == wire' = Tail(wire) /\ UNCHANGED <<net, txs, asked, closed, pushes>>

ReplyTooLong ==
  /\ Read /\ Head(wire).size > 1
  /\ wire' = <<Rest(Head(wire).size - 1)>> \o Tail(wire)
  /\ Fail
  /\ torn' = torn + 1
  /\ UNCHANGED <<net, txs, asked, closed, pushes, next_id, request, out, got, spoiled>>

(* Mistaken variant: the line that failed to parse is read again.          *)
GarbledAgain ==
  /\ Read /\ Head(wire).size = 1 /\ Head(wire).kind = "tail"
  /\ Fail
  /\ spoiled' = spoiled + 1
  /\ UNCHANGED <<server, next_id, request, out, got, torn>>
(* Error::Json.                                                            *)
Garbled ==
  /\ Read /\ Head(wire).size = 1 /\ Head(wire).kind = "tail"
  /\ Consume /\ Fail
  /\ spoiled' = spoiled + 1
  /\ UNCHANGED <<next_id, request, out, got, torn>>

(* Mistaken variants: any reply is taken for the answer; a line for        *)
(* another call is looked at and left; any error ends the list of txids.     *)
IsAnswerAny(line) == line.id # 0
IsAnswer(line) == line.id = next_id

SkipLeft ==
  /\ Read /\ Head(wire).size = 1 /\ Head(wire).kind # "tail"
  /\ ~IsAnswer(Head(wire))
  /\ UNCHANGED session
Skip ==
  /\ Read /\ Head(wire).size = 1 /\ Head(wire).kind # "tail"
  /\ ~IsAnswer(Head(wire))
  /\ Consume
  /\ UNCHANGED client

EndOfListAnyError(line) == line.kind \in {"none", "error"}
EndOfList(line) == line.kind = "none"

SameGenesis(line) == line.what.op = "genesis" /\ net = Expected

After(line) ==
  CASE stage = "version" -> "genesis"
    [] stage = "genesis" -> IF SameGenesis(line) THEN "txid" ELSE "end"
    [] OTHER -> stage

Answer ==
  /\ Read /\ Head(wire).size = 1 /\ Head(wire).kind # "tail"
  /\ IsAnswer(Head(wire))
  /\ Consume
  /\ got' = [request |-> request, answer |-> Head(wire).what]
  /\ LET line == Head(wire) IN
       \/ /\ line.kind = "ok"
          /\ stage' = After(line)
          /\ out' = IF stage = "txid" THEN Append(out, line.what.n) ELSE out
          /\ waiting' = FALSE
       \/ /\ stage = "txid" /\ EndOfList(line)
          /\ stage' = "pay" /\ waiting' = FALSE
          /\ UNCHANGED out
       \/ /\ line.kind # "ok" /\ ~(stage = "txid" /\ EndOfList(line))
          /\ Fail
          /\ UNCHANGED out
  /\ UNCHANGED <<next_id, request, torn, spoiled>>

(* The command has no more to ask.                                         *)
Drop ==
  /\ ~waiting /\ stage = "pay"
  /\ stage' = "end"
  /\ UNCHANGED <<server, next_id, request, waiting, out, got, torn, spoiled>>

-----------------------------------------------------------------------------

SessionInit ==
  /\ net \in Networks /\ txs \in 0..MaxTxs
  /\ asked = {} /\ wire = <<>> /\ closed = FALSE /\ pushes = 0
  /\ next_id = 0 /\ stage = "version" /\ request = NoWhat /\ waiting = FALSE
  /\ out = <<>>
  /\ got = [request |-> NoWhat, answer |-> NoWhat]
  /\ torn = 0 /\ spoiled = 0

ServerStep == (\E q \in asked : Reply(q)) \/ Notify \/ Close
Failure == Timeout \/ TimeoutInLine \/ Eof \/ ReplyTooLong \/ Garbled
Return == Failure \/ Skip \/ Answer
ClientStep == Send \/ BlockTooLarge \/ Return \/ Drop

SessionNext == ServerStep \/ ClientStep

SessionSpec == SessionInit /\ [][SessionNext]_session

(* A call waits for data or for the 30 seconds to pass, whatever the server *)
(* does: the read of a line ends.  Nothing is assumed of the server but     *)
(* that it does not push notifications for ever.                            *)
FairSession == SessionSpec /\ WF_session(Return)

-----------------------------------------------------------------------------

SessionTypeOK ==
  /\ net \in Networks /\ txs \in Nat
  /\ asked \subseteq Request /\ wire \in Seq(Line)
  /\ closed \in BOOLEAN /\ waiting \in BOOLEAN
  /\ next_id \in Nat /\ pushes \in Nat /\ torn \in Nat /\ spoiled \in Nat
  /\ stage \in Stages /\ request \in What
  /\ out \in Seq(Nat)
  /\ got \in [request : What, answer : What]

(* A call never returns the answer to another call, neither one that came  *)
(* too late for an earlier call of a deferred payout nor a notification.    *)
OwnAnswer == got.answer = got.request

(* block_txids gives every transaction of the block, in its order, or       *)
(* fails: a failing call never passes for the end of the block.             *)
WholeBlock ==
  /\ \A k \in DOMAIN out : out[k] = k - 1
  /\ stage = "pay" => Len(out) = txs /\ txs < MaxBlockTxs

(* Nothing but its genesis is asked of a server that follows another chain. *)
RightChain == stage \in {"txid", "pay"} => net = Expected

(* A line of which the client lost the beginning spoils one later call, no  *)
(* more: the session finds back to the start of a line.                     *)
Recovers == spoiled <= torn

(* Every call returns.                                                     *)
CallEnds == waiting ~> ~waiting
=============================================================================

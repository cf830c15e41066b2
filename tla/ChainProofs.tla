----------------------------- MODULE ChainProofs -----------------------------
(***************************************************************************)
(* Proofs about the two parts of chain.rs, Electrum and BuildCarrier.       *)
(*                                                                          *)
(* Electrum: whatever the server answers, in whatever order, for any number *)
(* of calls, lost lines and over-long replies, a call returns its own        *)
(* answer or fails.  Request ids grow, so a line or a request with the last  *)
(* id is about the last request; what a call waits for is what the stage of  *)
(* the command asks; and the rest of a broken line is the first on the wire. *)
(*                                                                          *)
(* BuildCarrier: whatever the coins, the amounts and the rate, a carrier     *)
(* that is returned accounts for every sat, and pays for its size and little *)
(* more.  What a signed transaction pays is at least the fee that was tried, *)
(* its outputs and its fee add up to its coins, and the fee tried is that of *)
(* a carrier with no more coins than the one it signs.  With up to four      *)
(* coins worth their cost, six passes suffice to find the fee.              *)
(***************************************************************************)
EXTENDS Electrum, BuildCarrier, TLAPS

-----------------------------------------------------------------------------
(* The inductive invariant, in named parts.                                *)

Lines == 1..Len(wire)

Younger ==
  /\ \A q \in asked : q.id <= next_id
  /\ \A k \in Lines : wire[k].id <= next_id

Last ==
  /\ \A q \in asked : q.id = next_id => q.what = request
  /\ \A k \in Lines : wire[k].id = next_id => wire[k].what = request

Truthful ==
  \A k \in Lines :
    /\ wire[k].kind = "none" => wire[k].what.op = "txid" /\ wire[k].what.n >= txs
    /\ wire[k].kind = "ok" /\ wire[k].what.op = "txid" => wire[k].what.n < txs

Waits ==
  waiting => /\ request.op = stage
             /\ stage = "txid" => request.n = Len(out) /\ Len(out) < MaxBlockTxs

Listing == Len(out) <= txs

Fresh == next_id = 0 => request = NoWhat

Broken ==
  /\ spoiled <= torn
  /\ \A k \in Lines : wire[k].kind = "tail" => k = 1 /\ spoiled < torn

Session ==
  /\ SessionTypeOK /\ Younger /\ Last /\ Truthful /\ Waits /\ Listing /\ Fresh /\ Broken
  /\ OwnAnswer /\ WholeBlock /\ RightChain

LEMMA InitSession == SessionInit => Session
  <1> USE ElectrumConstants
  <1> SUFFICES ASSUME SessionInit PROVE Session
    OBVIOUS
  <1>1. SessionTypeOK
    <2>1. NoWhat \in What
      BY DEF What, NoWhat, Stages
    <2>2. wire \in Seq(Line) /\ out \in Seq(Nat) /\ asked \subseteq Request
      BY DEF SessionInit
    <2>3. net \in Networks /\ txs \in Nat
      BY DEF SessionInit
    <2>4. got \in [request : What, answer : What]
      BY <2>1 DEF SessionInit
    <2>5. stage \in Stages /\ closed \in BOOLEAN /\ waiting \in BOOLEAN
      BY DEF SessionInit, Stages, Fatal
    <2> QED
      BY <2>1, <2>2, <2>3, <2>4, <2>5 DEF SessionInit, SessionTypeOK
  <1> QED
    BY <1>1 DEF SessionInit, Session, Younger, Last, Truthful, Waits, Listing, Fresh,
       Broken, OwnAnswer, WholeBlock, RightChain, Lines

-----------------------------------------------------------------------------
(* Each step keeps the session.                                            *)

LEMMA SessionTypes == SessionTypeOK /\ [SessionNext]_session => SessionTypeOK'
  <1> USE ElectrumConstants
  <1> SUFFICES ASSUME SessionTypeOK, [SessionNext]_session PROVE SessionTypeOK'
    OBVIOUS
  <1> USE DEF SessionTypeOK
  <1>a. /\ \A len \in Nat \ {0} : Rest(len) \in Line
         /\ Push \in Line
    <2>1. NoWhat \in What
      BY DEF What, NoWhat, Stages
    <2> QED
      BY <2>1 DEF Rest, Push, Line
  <1>0. /\ \A len \in 1..MaxLine : Rest(len) \in Line
        /\ Push \in Line
    <2>1. 1..MaxLine \subseteq Nat \ {0}
      OBVIOUS
    <2> QED
      BY <2>1, <1>a
  <1>1. CASE UNCHANGED session
    BY <1>1 DEF session, server, client
  <1>2. ASSUME NEW q \in asked, Reply(q) PROVE SessionTypeOK'
    <2>1. PICK kind \in Kinds(q.what), len \in 1..MaxLine :
            wire' = Append(wire, [id |-> q.id, what |-> q.what, kind |-> kind,
                                  size |-> len])
      BY <1>2 DEF Reply
    <2>2. kind \in {"ok", "none", "error"} /\ len \in Nat \ {0}
      BY DEF Kinds
    <2>3. [id |-> q.id, what |-> q.what, kind |-> kind, size |-> len] \in Line
      BY <2>2 DEF Line, Request
    <2> QED
      BY <1>2, <2>1, <2>3 DEF Reply, client
  <1>3. CASE Notify
    BY <1>0, <1>3, SMTT(30) DEF Notify, client
  <1>4. CASE Close
    BY <1>4 DEF Close, client
  <1>5. CASE Send
    <2>1. request' \in What
      BY <1>5 DEF Send, Ask, What
    <2>2. [id |-> next_id', what |-> request'] \in Request
      BY <1>5, <2>1 DEF Send, Request
    <2> QED
      BY <1>5, <2>1, <2>2 DEF Send
  <1>6. CASE BlockTooLarge \/ Drop
    BY <1>6 DEF BlockTooLarge, Drop, server, Stages
  <1>7. Fail => waiting' = FALSE /\ stage' \in Stages
    BY DEF Fail, Stages
  <1>8. CASE Timeout \/ Eof
    BY <1>7, <1>8 DEF Timeout, Eof, server
  <1>9. CASE TimeoutInLine
    <2>1. wire' \in Seq(Line)
      BY <1>0, <1>9 DEF TimeoutInLine
    <2>2. asked' \subseteq Request /\ pushes' \in Nat /\ torn' \in Nat
      BY <1>9 DEF TimeoutInLine
    <2>3. waiting' = FALSE /\ stage' \in Stages
      BY <1>7, <1>9 DEF TimeoutInLine
    <2>4. UNCHANGED <<net, txs, closed, next_id, request, out, got, spoiled>>
      BY <1>9 DEF TimeoutInLine
    <2> QED
      BY <2>1, <2>2, <2>3, <2>4
  <1>10. Read => Head(wire) \in Line /\ Tail(wire) \in Seq(Line)
    BY DEF Read
  <1>11. CASE ReplyTooLong
    <2>0. Head(wire) \in Line /\ Head(wire).size > 1
      BY <1>10, <1>11 DEF ReplyTooLong
    <2>1. Rest(Head(wire).size - 1) \in Line
      <3>1. Head(wire).size \in Nat \ {0}
        BY <2>0 DEF Line
      <3>2. Head(wire).size - 1 \in Nat \ {0}
        BY <2>0, <3>1
      <3> QED
        BY <1>a, <3>2
    <2>2. /\ Tail(wire) \in Seq(Line)
          /\ wire' = <<Rest(Head(wire).size - 1)>> \o Tail(wire)
          /\ torn' = torn + 1
      BY <1>10, <1>11 DEF ReplyTooLong
    <2>3. <<Rest(Head(wire).size - 1)>> \in Seq(Line)
      BY <2>1
    <2>4. wire' \in Seq(Line)
      BY <2>2, <2>3
    <2>5. waiting' = FALSE /\ stage' \in Stages
      BY <1>7, <1>11 DEF ReplyTooLong
    <2>6. torn' \in Nat
      BY <2>2
    <2>7. UNCHANGED <<net, txs, asked, closed, pushes, next_id, request, out, got,
                      spoiled>>
      BY <1>11 DEF ReplyTooLong
    <2> QED
      BY <2>4, <2>5, <2>6, <2>7
  <1>12. CASE Garbled
    <2>1. waiting' = FALSE /\ stage' \in Stages
      BY <1>7, <1>12 DEF Garbled
    <2>2. wire' \in Seq(Line)
      BY <1>10, <1>12 DEF Garbled, Consume
    <2>3. spoiled' \in Nat
      BY <1>12 DEF Garbled
    <2>4. UNCHANGED <<net, txs, asked, closed, pushes, next_id, request, out, got, torn>>
      BY <1>12 DEF Garbled, Consume
    <2> QED
      BY <2>1, <2>2, <2>3, <2>4
  <1>13. CASE Skip
    BY <1>10, <1>13 DEF Skip, Consume, client
  <1>14. CASE Answer
    <2>1. Head(wire).what \in What /\ Head(wire).what.n \in Nat
      BY <1>10, <1>14 DEF Answer, Line, What
    <2>2. After(Head(wire)) \in Stages
      BY DEF After, Stages, Fatal
    <2>3. out' \in Seq(Nat)
      <3>1. out' = Append(out, Head(wire).what.n) \/ out' = out
        BY <1>14 DEF Answer
      <3>2. \A len \in Nat : Append(out, len) \in Seq(Nat)
        OBVIOUS
      <3>3. Append(out, Head(wire).what.n) \in Seq(Nat)
        BY <2>1, <3>2
      <3> QED
        BY <3>1, <3>3
    <2>5. stage' \in Stages /\ waiting' \in BOOLEAN
      <3>1. "pay" \in Stages
        BY DEF Stages
      <3> QED
        BY <1>7, <1>14, <2>2, <3>1 DEF Answer
    <2>4. got' \in [request : What, answer : What]
      BY <1>14, <2>1 DEF Answer
    <2> QED
      BY <1>10, <1>14, <2>3, <2>4, <2>5 DEF Answer, Consume
  <1> QED
    BY <1>1, <1>2, <1>3, <1>4, <1>5, <1>6, <1>8, <1>9, <1>11, <1>12, <1>13, <1>14
       DEF SessionNext, ServerStep, ClientStep, Return, Failure

(* The server's steps: a new last line, on the wire for good.              *)
LEMMA ReplyKeeps ==
  ASSUME Session, SessionTypeOK', NEW q \in asked, Reply(q)
  PROVE  Session'
  <1> USE DEF Lines
  <1>1. PICK kind \in Kinds(q.what), len \in 1..MaxLine :
          wire' = Append(wire, [id |-> q.id, what |-> q.what, kind |-> kind, size |-> len])
    BY DEF Reply
  <1>2. wire \in Seq(Line) /\ asked' \subseteq asked
    BY DEF Session, SessionTypeOK, Reply
  <1>3. /\ Len(wire') = Len(wire) + 1 /\ Len(wire) \in Nat
        /\ wire'[Len(wire) + 1] = [id |-> q.id, what |-> q.what, kind |-> kind, size |-> len]
        /\ \A k \in 1..Len(wire) : wire'[k] = wire[k]
    <2> DEFINE line == [id |-> q.id, what |-> q.what, kind |-> kind, size |-> len]
    <2>1. wire' = Append(wire, line) /\ wire \in Seq(Line)
      BY <1>1, <1>2
    <2> HIDE DEF line
    <2>2. /\ Len(wire') = Len(wire) + 1 /\ Len(wire) \in Nat
          /\ wire'[Len(wire) + 1] = line
          /\ \A k \in 1..Len(wire) : wire'[k] = wire[k]
      BY <2>1
    <2> QED
      BY <2>2 DEF line
  <1>4. /\ kind # "tail"
        /\ kind = "none" => q.what.op = "txid" /\ q.what.n >= txs
        /\ kind = "ok" /\ q.what.op = "txid" => ~(q.what.n >= txs)
    BY DEF Kinds
  <1>5. q.what.op = "txid" /\ ~(q.what.n >= txs) => q.what.n < txs
    <2>1. asked \subseteq Request /\ txs \in Nat
      BY DEF Session, SessionTypeOK
    <2>2. q.what \in What
      BY <2>1 DEF Request
    <2>3. q.what.n \in Nat
      BY <2>2 DEF What
    <2> QED
      BY <2>1, <2>3
  <1>6. UNCHANGED <<net, txs, next_id, stage, request, waiting, out, got, torn, spoiled>>
    BY DEF Reply, client
  <1>7. Younger'
    BY <1>2, <1>3, <1>6 DEF Session, Younger
  <1>8. Last'
    BY <1>2, <1>3, <1>6, SMTT(30) DEF Session, Last
  <1>9. Truthful'
    BY <1>3, <1>4, <1>5, <1>6 DEF Session, Truthful
  <1>10. Broken'
    BY <1>3, <1>4, <1>6 DEF Session, Broken
  <1> QED
    BY <1>6, <1>7, <1>8, <1>9, <1>10
       DEF Session, Waits, Listing, OwnAnswer, WholeBlock, RightChain, Fresh

LEMMA NotifyKeeps ==
  ASSUME Session, SessionTypeOK', Notify
  PROVE  Session'
  <1> USE DEF Lines
  <1>1. wire \in Seq(Line) /\ wire' = Append(wire, Push) /\ next_id \in Nat
    BY DEF Session, SessionTypeOK, Notify
  <1>2. /\ Len(wire') = Len(wire) + 1 /\ Len(wire) \in Nat
        /\ wire'[Len(wire) + 1] = Push
        /\ \A k \in 1..Len(wire) : wire'[k] = wire[k]
    <2> DEFINE line == Push
    <2>1. wire' = Append(wire, line) /\ wire \in Seq(Line)
      BY <1>1
    <2> HIDE DEF line
    <2>2. /\ Len(wire') = Len(wire) + 1 /\ Len(wire) \in Nat
          /\ wire'[Len(wire) + 1] = line
          /\ \A k \in 1..Len(wire) : wire'[k] = wire[k]
      BY <2>1
    <2> QED
      BY <2>2 DEF line
  <1>3. UNCHANGED <<net, txs, asked, next_id, stage, request, waiting, out, got, torn,
                    spoiled>>
    BY DEF Notify, client
  <1>4. Younger'
    BY <1>1, <1>2, <1>3 DEF Session, Younger, Push
  <1>5. next_id = 0 => request = NoWhat
    BY DEF Session, Fresh
  <1>6. Last'
    BY <1>2, <1>3, <1>5 DEF Session, Last, Push
  <1>7. Truthful'
    BY <1>2, <1>3 DEF Session, Truthful, Push
  <1>8. Broken'
    BY <1>2, <1>3 DEF Session, Broken, Push
  <1> QED
    BY <1>3, <1>4, <1>6, <1>7, <1>8
       DEF Session, Waits, Listing, OwnAnswer, WholeBlock, RightChain, Fresh

(* A new id: nothing on the way has it yet.                                *)
LEMMA SendKeeps ==
  ASSUME Session, SessionTypeOK', Send
  PROVE  Session'
  <1> USE DEF Lines
  <1>1. /\ next_id \in Nat /\ next_id' = next_id + 1
        /\ asked' = asked \cup {[id |-> next_id', what |-> request']}
        /\ UNCHANGED <<net, txs, wire, stage, out, got, torn, spoiled>>
    BY DEF Session, SessionTypeOK, Send
  <1>2. /\ \A q \in asked : q.id \in Nat
        /\ \A k \in 1..Len(wire) : wire[k].id \in Nat
    <2>1. wire \in Seq(Line) /\ asked \subseteq Request
      BY DEF Session, SessionTypeOK
    <2>2. \A k \in 1..Len(wire) : wire[k] \in Line
      BY <2>1
    <2> QED
      BY <2>1, <2>2 DEF Request, Line
  <1>3. Younger'
    BY <1>1, <1>2 DEF Session, Younger
  <1>4. Last'
    BY <1>1, <1>2 DEF Session, Younger, Last
  <1>5. Waits'
    BY <1>1 DEF Send, Ask, Waits
  <1>6. Fresh'
    BY <1>1 DEF Fresh
  <1> QED
    BY <1>1, <1>3, <1>4, <1>5, <1>6
       DEF Session, Truthful, Broken, Listing, OwnAnswer, WholeBlock, RightChain

(* Steps that leave the wire and the requests alone.                       *)
LEMMA QuietKeeps ==
  ASSUME Session, SessionTypeOK',
         UNCHANGED <<net, txs, asked, wire, next_id, request, out, got, torn, spoiled>>,
         stage' \in {stage, "end"}, waiting' \in {waiting, FALSE},
         waiting' => stage' = stage
  PROVE  Session'
  <1>1. Younger' /\ Last' /\ Truthful' /\ Broken' /\ Listing' /\ Fresh' /\ OwnAnswer'
    BY DEF Session, Younger, Last, Truthful, Broken, Listing, Fresh, OwnAnswer, Lines
  <1>2. Waits'
    BY DEF Session, Waits
  <1>3. stage' = stage \/ stage' \notin {"txid", "pay"}
    OBVIOUS
  <1>4. WholeBlock'
    BY <1>3 DEF Session, WholeBlock
  <1>5. RightChain'
    BY <1>3 DEF Session, RightChain
  <1> QED
    BY <1>1, <1>2, <1>4, <1>5 DEF Session

(* The rest of a line, put back at the head of the wire.                   *)
LEMMA TornKeeps ==
  ASSUME Session, SessionTypeOK', NEW len \in Nat, NEW rest \in Seq(Line),
         wire' = <<Rest(len)>> \o rest, asked' \subseteq asked, torn' = torn + 1,
         \/ rest = <<>>
         \/ wire # <<>> /\ rest = Tail(wire),
         UNCHANGED <<net, txs, next_id, request, out, got, spoiled>>,
         stage' \in {stage, "end"}, waiting' = FALSE
  PROVE  Session'
  <1> USE DEF Lines
  <1>1. wire \in Seq(Line) /\ torn \in Nat /\ spoiled \in Nat /\ next_id \in Nat
    BY DEF Session, SessionTypeOK
  <1>2. /\ Len(wire') = Len(rest) + 1 /\ Len(rest) \in Nat
        /\ wire'[1] = Rest(len)
        /\ \A k \in 2..Len(wire') : wire'[k] = rest[k - 1]
    BY <1>1
  <1>3. \A k \in 1..Len(rest) : k + 1 \in 1..Len(wire) /\ rest[k] = wire[k + 1]
    <2>1. CASE rest = <<>>
      BY <2>1
    <2>2. CASE wire # <<>> /\ rest = Tail(wire)
      BY <1>1, <2>2
    <2> QED
      BY <2>1, <2>2
  <1>4. \A k \in 2..Len(wire') : k \in 1..Len(wire) /\ wire'[k] = wire[k]
    BY <1>2, <1>3
  <1>5. \A k \in 1..Len(wire') : k = 1 \/ k \in 2..Len(wire')
    BY <1>2
  <1>6. /\ wire'[1].id = 0 /\ wire'[1].what = NoWhat /\ wire'[1].kind = "tail"
        /\ next_id = 0 => request = NoWhat
    BY <1>2 DEF Session, Fresh, Rest
  <1>7. Younger'
    <2>1. \A q \in asked' : q.id <= next_id'
      BY DEF Session, Younger
    <2>2. wire'[1].id <= next_id'
      BY <1>1, <1>6
    <2>3. \A k \in 2..Len(wire') : wire'[k].id <= next_id'
      BY <1>4 DEF Session, Younger
    <2> QED
      BY <1>5, <2>1, <2>2, <2>3 DEF Younger
  <1>8. Last'
    BY <1>2, <1>4, <1>5, <1>6, ZenonT(60) DEF Session, Last
  <1>9. Truthful'
    BY <1>2, <1>4, <1>5, <1>6, ZenonT(60) DEF Session, Truthful
  <1>10. Broken'
    BY <1>1, <1>4, <1>5, SMTT(30) DEF Session, Broken
  <1> QED
    BY <1>7, <1>8, <1>9, <1>10
       DEF Session, Waits, Listing, OwnAnswer, WholeBlock, RightChain, Fresh

(* The line at the head is consumed: every later one was there before.     *)
LEMMA Consumed ==
  ASSUME Session, Read, Consume
  PROVE  /\ Head(wire) = wire[1] /\ 1 \in Lines
         /\ \A k \in 1..Len(wire') : k + 1 \in Lines /\ wire'[k] = wire[k + 1]
         /\ Head(wire) \in Line
  <1>1. wire \in Seq(Line) /\ wire # <<>>
    BY DEF Session, SessionTypeOK, Read
  <1> QED
    BY <1>1 DEF Consume, Lines

LEMMA ConsumedLines ==
  ASSUME Session, Read, Consume, UNCHANGED <<next_id, request>>
  PROVE  Younger' /\ Last' /\ Truthful' /\ \A k \in Lines' : wire'[k].kind # "tail"
  <1>1. \A k \in 1..Len(wire') : k + 1 \in Lines /\ wire'[k] = wire[k + 1]
    BY Consumed
  <1>2. UNCHANGED <<txs, asked>>
    BY DEF Consume
  <1>3. Younger' /\ Last' /\ Truthful'
    BY <1>1, <1>2 DEF Session, Younger, Last, Truthful, Lines
  <1>4. \A k \in 1..Len(wire') : k + 1 # 1
    OBVIOUS
  <1>5. \A k \in 1..Len(wire') : wire'[k].kind # "tail"
    BY <1>1, <1>4 DEF Session, Broken
  <1> QED
    BY <1>3, <1>5 DEF Lines

LEMMA GarbledKeeps ==
  ASSUME Session, SessionTypeOK', Garbled
  PROVE  Session'
  <1>1. Read /\ Consume /\ Head(wire).kind = "tail" /\ Fail
        /\ spoiled' = spoiled + 1 /\ UNCHANGED <<next_id, request, out, got, torn>>
    BY DEF Garbled
  <1>2. Younger' /\ Last' /\ Truthful' /\ \A k \in Lines' : wire'[k].kind # "tail"
    BY <1>1, ConsumedLines
  <1>3. spoiled < torn
    BY <1>1, Consumed DEF Session, Broken
  <1>4. Broken'
    BY <1>1, <1>2, <1>3 DEF Broken, Session, SessionTypeOK
  <1>5. waiting' = FALSE /\ (stage' = stage \/ stage' = "end") /\ UNCHANGED <<net, txs>>
    BY <1>1 DEF Fail, Consume
  <1> QED
    BY <1>1, <1>2, <1>4, <1>5 DEF Session, Waits, Listing, Fresh, OwnAnswer,
       WholeBlock, RightChain

LEMMA SkipKeeps ==
  ASSUME Session, SessionTypeOK', Skip
  PROVE  Session'
  <1>1. Read /\ Consume /\ UNCHANGED client
    BY DEF Skip
  <1>2. Younger' /\ Last' /\ Truthful' /\ \A k \in Lines' : wire'[k].kind # "tail"
    BY <1>1, ConsumedLines DEF client
  <1>3. Broken'
    BY <1>1, <1>2 DEF Broken, Session, client
  <1> QED
    BY <1>1, <1>2, <1>3 DEF Session, Waits, Listing, Fresh, OwnAnswer, WholeBlock,
       RightChain, client, Consume

(* The answer is that of the request: the ids are equal, and so the line   *)
(* is about what the stage asks.                                            *)
LEMMA AnswerKeeps ==
  ASSUME Session, SessionTypeOK', Answer
  PROVE  Session'
  <1> DEFINE line == Head(wire)
  <1>1. Read /\ Consume /\ line.id = next_id /\ line.kind # "tail"
        /\ got' = [request |-> request, answer |-> line.what]
        /\ UNCHANGED <<next_id, request, torn, spoiled>>
    BY DEF Answer, IsAnswer
  <1>2. line = wire[1] /\ 1 \in Lines
    BY <1>1, Consumed
  <1>3. line.what = request
    BY <1>1, <1>2 DEF Session, Last
  <1>4. /\ line.kind = "none" => request.op = "txid" /\ request.n >= txs
        /\ line.kind = "ok" /\ request.op = "txid" => request.n < txs
    BY <1>2, <1>3 DEF Session, Truthful
  <1>5. /\ request.op = stage
        /\ stage = "txid" => request.n = Len(out) /\ Len(out) < MaxBlockTxs
    BY <1>1 DEF Session, Waits, Read
  <1>6. Younger' /\ Last' /\ Truthful' /\ \A k \in Lines' : wire'[k].kind # "tail"
    BY <1>1, ConsumedLines
  <1>7. Broken' /\ Fresh' /\ OwnAnswer'
    BY <1>1, <1>3, <1>6 DEF Broken, Session, Fresh, OwnAnswer
  <1>8. UNCHANGED <<net, txs>> /\ waiting' = FALSE
    BY <1>1 DEF Answer, Consume, Fail
  <1>9. Waits'
    BY <1>8 DEF Waits
  <1>10. out \in Seq(Nat) /\ Len(out) \in Nat /\ txs \in Nat
    BY DEF Session, SessionTypeOK
  <1>11. Listing' /\ WholeBlock' /\ RightChain'
    <2>1. CASE line.kind = "ok" /\ stage' = After(line)
               /\ out' = IF stage = "txid" THEN Append(out, line.what.n) ELSE out
      <3>1. CASE stage = "txid"
        <4>1. out' = Append(out, Len(out)) /\ stage' = "txid" /\ Len(out) < txs
          BY <1>3, <1>4, <1>5, <2>1, <3>1 DEF After
        <4>2. /\ Len(out') = Len(out) + 1 /\ DOMAIN out' = 1..(Len(out) + 1)
              /\ out'[Len(out) + 1] = Len(out)
              /\ \A k \in 1..Len(out) : out'[k] = out[k]
          BY <1>10, <4>1
        <4>3. \A k \in DOMAIN out' : out'[k] = k - 1
          BY <1>10, <4>2, SMTT(30) DEF Session, WholeBlock
        <4> QED
          BY <1>8, <1>10, <3>1, <4>1, <4>2, <4>3
             DEF Session, Listing, WholeBlock, RightChain
      <3>2. CASE stage # "txid"
        <4>1. out' = out /\ (stage' = "txid" => stage = "genesis" /\ net = Expected)
          BY <2>1, <3>2 DEF After, SameGenesis
        <4>2. stage' = "pay" => stage = "pay"
          BY <2>1, <3>2 DEF After
        <4> QED
          BY <1>8, <4>1, <4>2 DEF Session, Listing, WholeBlock, RightChain
      <3> QED
        BY <3>1, <3>2
    <2>2. CASE stage = "txid" /\ EndOfList(line) /\ stage' = "pay" /\ UNCHANGED out
      <3>1. Len(out) >= txs /\ Len(out) < MaxBlockTxs
        BY <1>4, <1>5, <2>2 DEF EndOfList
      <3>2. Len(out) = txs /\ txs < MaxBlockTxs
        BY <1>10, <3>1 DEF Session, Listing
      <3> QED
        BY <1>8, <2>2, <3>2 DEF Session, Listing, WholeBlock, RightChain
    <2>3. CASE Fail /\ UNCHANGED out
      <3>1. stage' = stage \/ stage' = "end"
        BY <2>3 DEF Fail
      <3> QED
        BY <1>8, <2>3, <3>1 DEF Session, Listing, WholeBlock, RightChain
    <2> QED
      BY <2>1, <2>2, <2>3 DEF Answer
  <1> QED
    BY <1>6, <1>7, <1>9, <1>11 DEF Session

LEMMA NextSession == Session /\ [SessionNext]_session => Session'
  <1> SUFFICES ASSUME Session, [SessionNext]_session PROVE Session'
    OBVIOUS
  <1>1. SessionTypeOK'
    BY SessionTypes DEF Session
  <1>2. Fail => stage' \in {stage, "end"} /\ waiting' = FALSE
    BY DEF Fail
  <1>3. CASE UNCHANGED session
    BY <1>1, <1>3, QuietKeeps DEF session, server, client
  <1>4. CASE (\E q \in asked : Reply(q)) \/ Notify \/ Send \/ Garbled \/ Skip \/ Answer
    BY <1>1, <1>4, ReplyKeeps, NotifyKeeps, SendKeeps, GarbledKeeps, SkipKeeps,
       AnswerKeeps
  <1>5. CASE Close \/ BlockTooLarge \/ Drop
    <2>1. UNCHANGED <<net, txs, asked, wire, next_id, request, waiting, out, got, torn,
                      spoiled>>
      BY <1>5 DEF Close, BlockTooLarge, Drop, server, client
    <2>2. stage' = stage \/ (~waiting /\ stage' = "end")
      BY <1>5 DEF Close, BlockTooLarge, Drop, client
    <2> QED
      BY <1>1, <2>1, <2>2, QuietKeeps
  <1>6. CASE Timeout \/ Eof
    BY <1>1, <1>2, <1>6, QuietKeeps DEF Timeout, Eof, server
  <1>7. CASE TimeoutInLine
    <2>1. PICK len \in 1..MaxLine : wire' = <<Rest(len)>>
      BY <1>7 DEF TimeoutInLine
    <2>2. len \in Nat /\ <<>> \in Seq(Line) /\ wire' = <<Rest(len)>> \o <<>>
      BY <2>1
    <2>3. asked' \subseteq asked /\ torn' = torn + 1
          /\ UNCHANGED <<net, txs, next_id, request, out, got, spoiled>>
      BY <1>7 DEF TimeoutInLine
    <2>4. stage' \in {stage, "end"} /\ waiting' = FALSE
      BY <1>2, <1>7 DEF TimeoutInLine
    <2> QED
      BY <1>1, <2>2, <2>3, <2>4, TornKeeps
  <1>8. CASE ReplyTooLong
    <2>1. wire \in Seq(Line) /\ wire # <<>> /\ Head(wire).size > 1
      BY <1>8 DEF Session, SessionTypeOK, ReplyTooLong, Read
    <2>2. Head(wire).size \in Nat
      <3>1. Head(wire) \in Line
        BY <2>1
      <3> QED
        BY <3>1 DEF Line
    <2>3. Head(wire).size - 1 \in Nat /\ Tail(wire) \in Seq(Line)
      BY <2>1, <2>2
    <2>4. /\ wire' = <<Rest(Head(wire).size - 1)>> \o Tail(wire) /\ torn' = torn + 1
          /\ UNCHANGED <<net, txs, asked, next_id, request, out, got, spoiled>>
      BY <1>8 DEF ReplyTooLong
    <2>5. stage' \in {stage, "end"} /\ waiting' = FALSE
      BY <1>2, <1>8 DEF ReplyTooLong
    <2> QED
      BY <1>1, <2>1, <2>3, <2>4, <2>5, TornKeeps
  <1> QED
    BY <1>3, <1>4, <1>5, <1>6, <1>7, <1>8
       DEF SessionNext, ServerStep, ClientStep, Return, Failure

(* Session is an invariant, whatever the server does.                      *)
THEOREM SessionInvariant == SessionSpec => []Session
  BY InitSession, NextSession, PTL DEF SessionSpec

(* An answer is the answer to its request (Electrum::call).                *)
THEOREM AnswersAreOwn == SessionSpec => []OwnAnswer
  <1>1. Session => OwnAnswer
    BY DEF Session
  <1> QED
    BY <1>1, SessionInvariant, PTL

(* block_txids gives the whole block or fails.                             *)
THEOREM BlocksAreWhole == SessionSpec => []WholeBlock
  <1>1. Session => WholeBlock
    BY DEF Session
  <1> QED
    BY <1>1, SessionInvariant, PTL

(* The genesis check comes before everything else (connect_checked).       *)
THEOREM ChainIsRight == SessionSpec => []RightChain
  <1>1. Session => RightChain
    BY DEF Session
  <1> QED
    BY <1>1, SessionInvariant, PTL

(* A broken line spoils one later call at most.                            *)
THEOREM SessionRecovers == SessionSpec => []Recovers
  <1>1. Session => Recovers
    BY DEF Session, Broken, Recovers
  <1> QED
    BY <1>1, SessionInvariant, PTL

-----------------------------------------------------------------------------
(* build_carrier and build_payout.                                         *)

Balanced ==
  pc \in {"sign", "ok"} =>
    /\ tx.paid >= fee
    /\ tx.total = extra + tx.change + tx.paid
    /\ tx.change = 0 \/ tx.change >= Dust

Carriers == CarrierTypeOK /\ Balanced /\ CarrierPays

LEMMA InitCarriers == CarrierInit => Carriers
  BY CarrierConstants
  DEF CarrierInit, Carriers, CarrierTypeOK, Balanced, CarrierPays, NoTx, Errors

LEMMA Monotone ==
  ASSUME NEW a \in Nat, NEW b \in Nat, NEW c \in Nat, a <= b
  PROVE  /\ a * c <= b * c
         /\ a * c \in Nat /\ b * c \in Nat
  <1>1. PICK d \in Nat : b = a + d
    <2> WITNESS b - a \in Nat
    <2> QED OBVIOUS
  <1>2. b * c = a * c + d * c
    BY <1>1
  <1>3. d * c \in Nat /\ a * c \in Nat /\ b * c \in Nat
    BY <1>1
  <1> QED
    BY <1>2, <1>3

(* The outputs of a transaction whose coins reach what it needs.           *)
LEMMA OutputsAddUp ==
  ASSUME CarrierTypeOK, total >= Need
  PROVE  /\ Outputs.change \in Nat /\ Outputs.paid \in Nat
         /\ Outputs.paid >= fee
         /\ total = extra + Outputs.change + Outputs.paid
         /\ Outputs.change = 0 \/ Outputs.change >= Dust
  BY CarrierConstants DEF CarrierTypeOK, Need, Outputs

LEMMA LongerIsNat ==
  ASSUME NEW k \in Nat
  PROVE  /\ Longer(k) \in Nat
         /\ In * k \in Nat /\ Longer(k) <= In * k
  <1>1. Slack \in Nat /\ In \in Nat /\ Slack <= In
    BY CarrierConstants
  <1>2. Slack * k \in Nat /\ In * k \in Nat /\ Slack * k <= In * k
    BY <1>1, Monotone
  <1> DEFINE s == Slack * k  i == In * k
  <1> HIDE DEF s, i
  <1>3. (s + 3) \div 4 \in Nat /\ (s + 3) \div 4 <= i
    BY <1>2 DEF s, i
  <1> QED
    BY <1>2, <1>3 DEF Longer, s, i

LEMMA SizeIsNat ==
  ASSUME n \in Nat, NEW slack \in 0..Longer(n), NEW change \in Nat
  PROVE  Base + In * n + slack + change \in Nat
  <1>1. Base \in Nat /\ In \in Nat
    BY CarrierConstants
  <1>2. slack \in Nat
    BY LongerIsNat
  <1>3. In * n \in Nat
    BY <1>1
  <1> DEFINE inputs == In * n
  <1> HIDE DEF inputs
  <1>4. Base + inputs + slack + change \in Nat
    BY <1>1, <1>2, <1>3 DEF inputs
  <1> QED
    BY <1>4 DEF inputs

LEMMA WantIsNat == CarrierTypeOK => Want \in Nat
  BY DEF CarrierTypeOK, Want

LEMMA CarrierTypes == CarrierTypeOK /\ [CarrierNext]_carrier => CarrierTypeOK'
  <1> USE CarrierConstants DEF CarrierTypeOK, Errors, args, Ends
  <1> SUFFICES ASSUME CarrierTypeOK, [CarrierNext]_carrier PROVE CarrierTypeOK'
    OBVIOUS
  <1>1. CASE UNCHANGED carrier
    BY <1>1 DEF carrier
  <1>2. ASSUME NEW us \in Coins, NEW r \in Rates, NEW a \in Amounts,
               NEW g \in {"carrier", "payout"}, Call(us, r, a, g)
        PROVE  CarrierTypeOK'
    BY <1>2 DEF Call, Start
  <1>3. CASE NeedOverflows
    BY <1>3 DEF NeedOverflows
  <1>4. CASE AddCoin
    <2>1. n \in Nat /\ utxos \in Seq(Nat) /\ n < Len(utxos)
      BY <1>4 DEF AddCoin
    <2>2. utxos[n + 1] \in Nat
      BY ONLY <2>1
    <2>3. CASE total + utxos[n + 1] > MaxSat
      BY <1>4, <2>3 DEF AddCoin
    <2>4. CASE ~(total + utxos[n + 1] > MaxSat)
      <3>1. n' = n + 1 /\ total' = total + utxos[n + 1]
        BY <1>4, <2>4 DEF AddCoin
      <3>2. total \in Nat
        OBVIOUS
      <3>3. n' \in Nat /\ total' \in Nat
        BY ONLY <2>1, <2>2, <3>1, <3>2
      <3>4. UNCHANGED <<utxos, rate, amount, goal, extra, pc, pass, fee, tx>>
        BY <1>4, <2>4 DEF AddCoin
      <3> QED
        BY <3>3, <3>4
    <2> QED
      BY <2>3, <2>4
  <1>5. CASE Insufficient
    BY <1>5 DEF Insufficient
  <1>6. CASE Sign
    <2>1. PICK slack \in 0..Longer(n) :
            tx' = [n |-> n, total |-> total,
                   change |-> Outputs.change, paid |-> Outputs.paid,
                   vsize |-> Base + In * n + slack
                             + IF Outputs.change > 0 THEN Change ELSE 0]
      BY <1>6 DEF Sign
    <2>2. Outputs.change \in Nat /\ Outputs.paid \in Nat
      BY <1>6, OutputsAddUp DEF Sign
    <2>3. Base + In * n + slack + (IF Outputs.change > 0 THEN Change ELSE 0) \in Nat
      BY SizeIsNat
    <2>4. tx' \in [n : Nat, total : Nat, change : Nat, paid : Nat, vsize : Nat]
      BY <2>1, <2>2, <2>3
    <2> QED
      BY <1>6, <2>4 DEF Sign
  <1>7. CASE WantOverflows
    BY <1>7 DEF WantOverflows
  <1>8. CASE Retry
    BY <1>8, WantIsNat DEF Retry, NextFee
  <1>9. CASE GiveUp
    BY <1>9 DEF GiveUp
  <1>10. CASE ReturnTx
    BY <1>10 DEF ReturnTx
  <1>11. CASE PayoutBelowFee
    BY <1>11 DEF PayoutBelowFee
  <1>12. CASE BuildAgain
    <2>1. Payment \in Nat
      BY <1>12, WantIsNat, SMTT(30) DEF BuildAgain, Payment
    <2> QED
      BY <1>12, <2>1 DEF BuildAgain, Start
  <1> QED
    BY <1>1, <1>2, <1>3, <1>4, <1>5, <1>6, <1>7, <1>8, <1>9, <1>10, <1>11, <1>12, SMTT(30)
    DEF CarrierNext

LEMMA StepBalances ==
  CarrierTypeOK /\ Balanced /\ CarrierPays /\ [CarrierNext]_carrier
    => Balanced' /\ CarrierPays'
  <1> SUFFICES ASSUME CarrierTypeOK, Balanced, CarrierPays, [CarrierNext]_carrier
               PROVE  Balanced' /\ CarrierPays'
    OBVIOUS
  <1> USE DEF Balanced, CarrierPays, Errors, args, Ends
  <1>1. CASE UNCHANGED carrier
    BY <1>1 DEF carrier
  <1>2. ASSUME NEW us \in Coins, NEW r \in Rates, NEW a \in Amounts,
               NEW g \in {"carrier", "payout"}, Call(us, r, a, g)
        PROVE  Balanced' /\ CarrierPays'
    BY <1>2 DEF Call, Start
  <1>3. CASE NeedOverflows \/ Insufficient \/ WantOverflows \/ GiveUp \/ PayoutBelowFee
    BY <1>3 DEF NeedOverflows, Insufficient, WantOverflows, GiveUp, PayoutBelowFee
  <1>4. CASE AddCoin
    BY <1>4 DEF AddCoin
  <1>5. CASE Sign
    <2>1. /\ tx'.change = Outputs.change /\ tx'.paid = Outputs.paid /\ tx'.total = total
          /\ pc' = "sign" /\ fee' = fee /\ extra' = extra
      BY <1>5 DEF Sign
    <2> QED
      BY <1>5, <2>1, OutputsAddUp DEF Sign
  <1>6. CASE Retry
    BY <1>6 DEF Retry
  <1>7. CASE ReturnTx
    <2>1. fee >= tx.vsize * rate /\ tx.paid >= fee
      BY <1>7 DEF ReturnTx, Built, Covers, Want
    <2>2. tx.paid >= tx.vsize * rate
      <3>1. tx.vsize * rate \in Nat /\ tx.paid \in Nat /\ fee \in Nat
        BY DEF CarrierTypeOK
      <3> QED
        BY <2>1, <3>1
    <2> QED
      BY <1>7, <2>2 DEF ReturnTx, Built
  <1>8. CASE BuildAgain
    BY <1>8 DEF BuildAgain, Start
  <1> QED
    BY <1>1, <1>2, <1>3, <1>4, <1>5, <1>6, <1>7, <1>8 DEF CarrierNext

-----------------------------------------------------------------------------

(* Types, balance and payment hold in every state of build_carrier and      *)
(* build_payout.                                                            *)
THEOREM CarriersInvariant == CarrierSpec => []Carriers
  <1>1. Carriers /\ [CarrierNext]_carrier => Carriers'
    BY CarrierTypes, StepBalances DEF Carriers
  <1> QED
    BY <1>1, InitCarriers, PTL DEF CarrierSpec

(* A carrier build_carrier returns pays for its size, accounts for every    *)
(* coin it spends and has no change below the dust limit.                   *)
THEOREM ReturnedCarriersPay == CarrierSpec => []CarrierPays
  <1>1. Carriers => CarrierPays
    BY DEF Carriers
  <1> QED
    BY <1>1, CarriersInvariant, PTL

-----------------------------------------------------------------------------
(* The fee.  A build keeps raising the fee, so every pass selects at least   *)
(* the coins of the pass before, and the fee it tries is that of a carrier   *)
(* with no more coins than the one it signs.                                *)

(* The least and the most k coins can cost.                                *)
Floor(k) == (Base + In * k) * rate
Cost(k) == (Base + In * k + Longer(k) + Change) * rate

(* S is the value of every prefix of the coins up to m of them.             *)
Prefixes(S, m) ==
  /\ m \in Nat /\ m <= Len(utxos)
  /\ S \in [0..m -> Nat]
  /\ S[0] = 0
  /\ \A k \in 0..(m - 1) : S[k + 1] = S[k] + utxos[k + 1]

(* No shorter prefix than k coins reaches the target.                      *)
Needs(S, k) == \A j \in 1..(k - 1) : S[j] < Target

(* The fee that is tried is that of the last transaction signed.           *)
Tried(S, m) ==
  \/ fee = 0
  \/ tx.n <= m /\ Needs(S, tx.n) /\ fee <= Cost(tx.n)

(* The coins of the transaction just signed.                               *)
Signed(S, m) ==
  /\ tx.n = n
  /\ n = Len(utxos) \/ (n > 0 /\ S[n] >= Target)
  /\ tx.vsize >= Base + In * n
  /\ tx.vsize <= Base + In * n + Longer(n) + Change
  /\ tx.paid < fee + Dust

(* The second build of a payout never selects more coins than the first,    *)
(* k of them, whose fee has left the payment.                               *)
Again(S, m) ==
  \E k \in Nat :
    /\ n <= k /\ (fee = 0 \/ tx.n <= k)
    /\ extra + Floor(k) <= amount
    /\ \/ k = Len(utxos)
       \/ k > 0 /\ k <= m /\ S[k] >= amount + Floor(k) + Dust

Selection(S, m) ==
  /\ Prefixes(S, m)
  /\ n <= m /\ S[n] = total
  /\ Needs(S, n)
  /\ Tried(S, m)
  /\ pc = "sign" => Signed(S, m)
  /\ IF goal = "again" THEN Again(S, m) ELSE extra = amount

Selecting == pc \in {"select", "sign"} => \E m \in Nat : \E S \in [0..m -> Nat] : Selection(S, m)

Bounded == NotOverpaid /\ VaultPays

LEMMA FloorIsNat ==
  ASSUME rate \in Nat, NEW k \in Nat
  PROVE  /\ Floor(k) \in Nat /\ Cost(k) \in Nat
         /\ Cost(k) = Floor(k) + (Change + Longer(k)) * rate
         /\ (Change + Longer(k)) * rate \in Nat
         /\ (Change + Longer(k)) * rate <= Floor(k)
  <1>1. /\ Base \in Nat /\ In \in Nat /\ Change \in Nat /\ Change <= Base
        /\ Longer(k) \in Nat /\ Longer(k) <= In * k /\ In * k \in Nat
    BY CarrierConstants, LongerIsNat
  <1> DEFINE i == In * k  l == Longer(k)
  <1> HIDE DEF i, l
  <1>2. Base + i \in Nat /\ Change + l \in Nat /\ Change + l <= Base + i
    BY <1>1 DEF i, l
  <1>3. /\ (Base + i) * rate \in Nat /\ (Change + l) * rate \in Nat
        /\ (Change + l) * rate <= (Base + i) * rate
    BY <1>2, Monotone
  <1>4. Base + i + l + Change = (Base + i) + (Change + l)
    BY <1>1 DEF i, l
  <1>5. \A x, y \in Nat : (x + y) * rate = x * rate + y * rate
    OBVIOUS
  <1>6. (Base + i + l + Change) * rate = (Base + i) * rate + (Change + l) * rate
    BY <1>2, <1>4, <1>5
  <1> QED
    BY <1>3, <1>6 DEF Floor, Cost, i, l

LEMMA CostGrows ==
  ASSUME rate \in Nat, NEW j \in Nat, NEW k \in Nat, j <= k
  PROVE  /\ Cost(j) <= Cost(k)
         /\ Floor(j) <= Floor(k)
         /\ Longer(j) <= Longer(k)
  <1>1. /\ Base \in Nat /\ In \in Nat /\ Change \in Nat /\ Slack \in Nat
        /\ Longer(j) \in Nat /\ Longer(k) \in Nat
    BY CarrierConstants, LongerIsNat
  <1>2. /\ In * j <= In * k /\ In * j \in Nat /\ In * k \in Nat
        /\ Slack * j <= Slack * k /\ Slack * j \in Nat /\ Slack * k \in Nat
    BY <1>1, Monotone
  <1>3. Longer(j) <= Longer(k)
    <2> DEFINE s == Slack * j  t == Slack * k
    <2> HIDE DEF s, t
    <2>1. (s + 3) \div 4 <= (t + 3) \div 4
      BY <1>2 DEF s, t
    <2> QED
      BY <2>1 DEF s, t, Longer
  <1> DEFINE p == In * j  q == In * k  a == Longer(j)  b == Longer(k)
  <1> HIDE DEF p, q, a, b
  <1>4. /\ Base + p \in Nat /\ Base + q \in Nat /\ Base + p <= Base + q
        /\ Base + p + a + Change \in Nat /\ Base + q + b + Change \in Nat
        /\ Base + p + a + Change <= Base + q + b + Change
    BY <1>1, <1>2, <1>3 DEF p, q, a, b
  <1>5. /\ (Base + p) * rate <= (Base + q) * rate
        /\ (Base + p + a + Change) * rate <= (Base + q + b + Change) * rate
    BY <1>4, Monotone
  <1> QED
    BY <1>3, <1>5 DEF Floor, Cost, p, q, a, b

(* What a transaction of k coins costs, from its size.                      *)
LEMMA SizeCosts ==
  ASSUME rate \in Nat, NEW k \in Nat, NEW v \in Nat,
         v >= Base + In * k, v <= Base + In * k + Longer(k) + Change
  PROVE  /\ v * rate \in Nat
         /\ Floor(k) <= v * rate /\ v * rate <= Cost(k)
         /\ Cost(k) <= (v + Change + Longer(k)) * rate
  <1>1. /\ Base \in Nat /\ In \in Nat /\ Change \in Nat
        /\ Longer(k) \in Nat /\ In * k \in Nat
    BY CarrierConstants, LongerIsNat
  <1> DEFINE i == In * k  l == Longer(k)
  <1> HIDE DEF i, l
  <1>2. /\ Base + i \in Nat /\ Base + i + l + Change \in Nat /\ v + Change + l \in Nat
        /\ Base + i <= v /\ v <= Base + i + l + Change
        /\ Base + i + l + Change <= v + Change + l
    BY <1>1 DEF i, l
  <1>3. /\ v * rate \in Nat /\ (Base + i) * rate <= v * rate
        /\ v * rate <= (Base + i + l + Change) * rate
        /\ (Base + i + l + Change) * rate <= (v + Change + l) * rate
    BY <1>2, Monotone
  <1> QED
    BY <1>3 DEF Floor, Cost, i, l

LEMMA InitSelects == CarrierInit => Selecting /\ Bounded
  BY DEF CarrierInit, Selecting, Bounded, NotOverpaid, VaultPays

(* The prefixes can be taken one coin further.                              *)
LEMMA OneCoinFurther ==
  ASSUME CarrierTypeOK, pc = "select", n < Len(utxos),
         NEW m \in Nat, NEW S \in [0..m -> Nat], Selection(S, m)
  PROVE  \E k \in Nat : \E T \in [0..k -> Nat] : Selection(T, k) /\ n < k
  <1>1. CASE n < m
    BY <1>1
  <1>2. CASE ~(n < m)
    <2>1. n \in Nat /\ n = m /\ utxos \in Seq(Nat)
      BY <1>2 DEF CarrierTypeOK, Selection
    <2>2. utxos[m + 1] \in Nat
      BY ONLY <2>1, n < Len(utxos), m \in Nat
    <2> DEFINE T == [i \in 0..(m + 1) |-> IF i <= m THEN S[i] ELSE S[m] + utxos[m + 1]]
    <2>3. T \in [0..(m + 1) -> Nat]
      BY <2>2
    <2>4. (\A i \in 0..m : T[i] = S[i]) /\ T[m + 1] = S[m] + utxos[m + 1]
      OBVIOUS
    <2> HIDE DEF T
    <2>5. Prefixes(T, m + 1)
      <3>1. Prefixes(S, m)
        BY DEF Selection
      <3>2. T[0] = 0
        BY <2>4, <3>1 DEF Prefixes
      <3>3. \A k \in 0..m : T[k + 1] = T[k] + utxos[k + 1]
        BY <2>4, <3>1 DEF Prefixes
      <3> QED
        BY <2>1, <2>3, <3>2, <3>3 DEF Prefixes
    <2>6. T[n] = total /\ Needs(T, n)
      BY <2>1, <2>4, SMTT(30) DEF Selection, Needs
    <2>7. Tried(T, m + 1)
      <3>1. CASE fee = 0
        BY <3>1 DEF Tried
      <3>2. CASE fee # 0
        <4>1. tx.n \in Nat /\ tx.n <= m /\ Needs(S, tx.n) /\ fee <= Cost(tx.n)
          BY <3>2 DEF Selection, Tried, CarrierTypeOK
        <4>2. Needs(T, tx.n)
          BY <2>4, <4>1, SMTT(30) DEF Needs
        <4> QED
          BY <4>1, <4>2 DEF Tried
      <3> QED
        BY <3>1, <3>2
    <2>8. IF goal = "again" THEN Again(T, m + 1) ELSE extra = amount
      <3>1. CASE goal = "again"
        <4>1. PICK k \in Nat :
                /\ n <= k /\ (fee = 0 \/ tx.n <= k)
                /\ extra + Floor(k) <= amount
                /\ \/ k = Len(utxos)
                   \/ k > 0 /\ k <= m /\ S[k] >= amount + Floor(k) + Dust
          BY <3>1 DEF Selection, Again
        <4>2. k <= m => T[k] = S[k]
          BY <2>4
        <4> QED
          BY <3>1, <4>1, <4>2 DEF Again
      <3> QED
        BY <3>1 DEF Selection
    <2>9. Selection(T, m + 1)
      BY <2>1, <2>5, <2>6, <2>7, <2>8 DEF Selection
    <2>10. m + 1 \in Nat /\ n < m + 1
      BY <2>1
    <2> WITNESS m + 1 \in Nat, T \in [0..(m + 1) -> Nat]
    <2> QED
      BY <2>9, <2>10
  <1> QED
    BY <1>1, <1>2

(* In the second build the coins of the first reach every target.          *)
LEMMA FirstBuildSuffices ==
  ASSUME CarrierTypeOK, goal = "again", n < Len(utxos), n = 0 \/ total < Target,
         NEW m \in Nat, NEW S \in [0..m -> Nat], Selection(S, m),
         NEW k \in Nat,
         n <= k, fee = 0 \/ tx.n <= k,
         extra + Floor(k) <= amount,
         k = Len(utxos) \/ (k > 0 /\ k <= m /\ S[k] >= amount + Floor(k) + Dust)
  PROVE  n + 1 <= k
  <1> SUFFICES ASSUME n = k PROVE FALSE
    BY DEF CarrierTypeOK
  <1>1. k > 0 /\ S[k] >= amount + Floor(k) + Dust /\ total = S[k] /\ total < Target
    BY DEF Selection
  <1>2. /\ rate \in Nat /\ fee \in Nat /\ extra \in Nat /\ amount \in Nat
        /\ total \in Nat /\ Dust \in Nat /\ tx.n \in Nat
    BY CarrierConstants DEF CarrierTypeOK
  <1>3. Floor(k) \in Nat /\ Cost(k) <= Floor(k) + Floor(k) /\ Cost(k) \in Nat
    BY <1>2, FloorIsNat, SMTT(30)
  <1>4. fee <= Cost(k)
    <2>1. CASE fee = 0
      BY <2>1, <1>3
    <2>2. CASE fee # 0
      <3>1. fee <= Cost(tx.n) /\ tx.n <= k
        BY <2>2 DEF Selection, Tried
      <3>2. Cost(tx.n) <= Cost(k) /\ Cost(tx.n) \in Nat
        BY <1>2, <3>1, CostGrows, FloorIsNat
      <3> QED
        BY <1>2, <1>3, <3>1, <3>2
    <2> QED
      BY <2>1, <2>2
  <1>5. Target <= amount + Floor(k) + Dust
    BY <1>2, <1>3, <1>4, SMTT(30) DEF Target, Need
  <1> QED
    BY <1>1, <1>2, <1>3, <1>5, SMTT(30) DEF Target, Need

LEMMA AddCoinSelects ==
  ASSUME CarrierTypeOK, Selecting, AddCoin
  PROVE  Selecting'
  <1> USE DEF CarrierTypeOK
  <1>1. CASE total + utxos[n + 1] > MaxSat
    BY <1>1 DEF AddCoin, Ends, Selecting
  <1>2. CASE ~(total + utxos[n + 1] > MaxSat)
    <2>1. /\ pc = "select" /\ n < Len(utxos) /\ (n = 0 \/ total < Target)
          /\ n' = n + 1 /\ total' = total + utxos[n + 1]
          /\ UNCHANGED <<utxos, rate, amount, goal, extra, pc, pass, fee, tx>>
      BY <1>2 DEF AddCoin, args
    <2>2. PICK m0 \in Nat : \E S \in [0..m0 -> Nat] : Selection(S, m0)
      BY <2>1 DEF Selecting
    <2>3. PICK S0 \in [0..m0 -> Nat] : Selection(S0, m0)
      BY <2>2
    <2>4. PICK m \in Nat : \E S \in [0..m -> Nat] : Selection(S, m) /\ n < m
      BY <2>1, <2>3, OneCoinFurther
    <2>5. PICK S \in [0..m -> Nat] : Selection(S, m) /\ n < m
      BY <2>4
    <2>6. Prefixes(S, m)' /\ n' <= m /\ S[n'] = total'
      <3>1. Prefixes(S, m) /\ S[n] = total /\ n + 1 <= m /\ n \in 0..(m - 1)
        BY <2>5 DEF Selection
      <3>2. S[n + 1] = S[n] + utxos[n + 1]
        BY <3>1 DEF Prefixes
      <3>3. Prefixes(S, m)'
        BY <2>1, <3>1 DEF Prefixes
      <3> QED
        BY <2>1, <3>1, <3>2, <3>3
    <2>7. Needs(S, n)' /\ Target' = Target
      <3>1. Needs(S, n) /\ (n = 0 \/ S[n] < Target) /\ Target' = Target
        BY <2>1, <2>5 DEF Selection, Target, Need
      <3>2. \A j \in 1..n : S[j] < Target
        <4> SUFFICES ASSUME NEW j \in 1..n PROVE S[j] < Target
          OBVIOUS
        <4>1. CASE j = n
          BY <3>1, <4>1
        <4>2. CASE j # n
          BY <3>1, <4>2, SMTT(30) DEF Needs
        <4> QED
          BY <4>1, <4>2
      <3>3. Needs(S, n + 1)
        BY <3>2 DEF Needs
      <3> QED
        BY <2>1, <3>1, <3>3 DEF Needs
    <2>8. Tried(S, m)'
      BY <2>1, <2>5 DEF Selection, Tried, Needs, Target, Need, Cost
    <2>9. (IF goal = "again" THEN Again(S, m) ELSE extra = amount)'
      <3>1. CASE goal = "again"
        <4>1. PICK k \in Nat :
                /\ n <= k /\ (fee = 0 \/ tx.n <= k)
                /\ extra + Floor(k) <= amount
                /\ \/ k = Len(utxos)
                   \/ k > 0 /\ k <= m /\ S[k] >= amount + Floor(k) + Dust
          BY <2>5, <3>1 DEF Selection, Again
        <4>2. n + 1 <= k
          BY <2>1, <2>5, <3>1, <4>1, FirstBuildSuffices
        <4>3. Floor(k)' = Floor(k)
          BY <2>1 DEF Floor
        <4> QED
          BY <2>1, <3>1, <4>1, <4>2, <4>3 DEF Again
      <3>2. CASE goal # "again"
        BY <2>1, <2>5, <3>2 DEF Selection
      <3> QED
        BY <3>1, <3>2
    <2>10. Selection(S, m)'
      BY <2>1, <2>6, <2>7, <2>8, <2>9 DEF Selection
    <2> QED
      BY <2>1, <2>10 DEF Selecting
  <1> QED
    BY <1>1, <1>2

(* The selection of a later pass is at least that of the one before.        *)
LEMMA SignSelects ==
  ASSUME CarrierTypeOK, Selecting, Sign
  PROVE  Selecting'
  <1> USE DEF CarrierTypeOK
  <1>1. PICK slack \in 0..Longer(n) :
          tx' = [n |-> n, total |-> total,
                 change |-> Outputs.change, paid |-> Outputs.paid,
                 vsize |-> Base + In * n + slack
                           + IF Outputs.change > 0 THEN Change ELSE 0]
    BY DEF Sign
  <1>2. /\ pc = "select" /\ pc' = "sign" /\ total >= Need
        /\ (n = Len(utxos) \/ (n > 0 /\ total >= Target))
        /\ UNCHANGED <<utxos, rate, amount, goal, extra, pass, fee, n, total>>
    BY DEF Sign, Selected, args
  <1>3. PICK m \in Nat : \E S \in [0..m -> Nat] : Selection(S, m)
    BY <1>2 DEF Selecting
  <1>4. PICK S \in [0..m -> Nat] : Selection(S, m)
    BY <1>3
  <1>5. /\ Base \in Nat /\ In \in Nat /\ Change \in Nat /\ Dust \in Nat /\ Dust > 0
        /\ In * n \in Nat /\ Longer(n) \in Nat
    BY CarrierConstants, LongerIsNat
  <1>6. tx'.vsize >= Base + In * n /\ tx'.vsize <= Base + In * n + Longer(n) + Change
    <2> DEFINE i == In * n
    <2> HIDE DEF i
    <2>1. tx'.vsize = Base + i + slack + IF Outputs.change > 0 THEN Change ELSE 0
      BY <1>1 DEF i
    <2>2. tx'.vsize >= Base + i /\ tx'.vsize <= Base + i + Longer(n) + Change
      BY <1>5, <2>1, SMTT(30) DEF i
    <2> QED
      BY <2>2 DEF i
  <1>7. tx'.paid < fee + Dust
    <2>1. Outputs.paid < fee + Dust
      BY <1>2, <1>5, SMTT(30) DEF Outputs, Need
    <2> QED
      BY <1>1, <2>1
  <1>8. Target' = Target /\ Cost(n)' = Cost(n) /\ tx'.n = n
    BY <1>1, <1>2 DEF Target, Need, Cost
  <1>9. Prefixes(S, m)' /\ n <= m /\ S[n] = total /\ Needs(S, n)'
    BY <1>2, <1>4, <1>8 DEF Selection, Prefixes, Needs
  <1>10. fee = 0 \/ (tx.n <= n /\ fee <= Cost(n))
    <2> SUFFICES ASSUME fee # 0 PROVE tx.n <= n /\ fee <= Cost(n)
      OBVIOUS
    <2>1. tx.n <= m /\ Needs(S, tx.n) /\ fee <= Cost(tx.n) /\ tx.n \in Nat
      BY <1>4 DEF Selection, Tried
    <2>2. m <= Len(utxos) /\ Len(utxos) \in Nat
      BY <1>4 DEF Selection, Prefixes
    <2>3. tx.n <= n
      <3> SUFFICES ASSUME n < tx.n PROVE FALSE
        BY <2>1
      <3>1. n > 0 /\ S[n] >= Target
        BY <1>2, <1>9, <2>1, <2>2
      <3>2. n \in 1..(tx.n - 1)
        BY <2>1, <3>1
      <3>3. Target \in Nat /\ S[n] \in Nat
        BY <1>5, <1>9 DEF Target, Need
      <3> QED
        BY <2>1, <3>1, <3>2, <3>3, SMTT(30) DEF Needs
    <2>4. Cost(tx.n) <= Cost(n) /\ Cost(tx.n) \in Nat /\ Cost(n) \in Nat
      BY <2>1, <2>3, CostGrows, FloorIsNat
    <2> QED
      BY <2>1, <2>3, <2>4
  <1>11. Tried(S, m)'
    BY <1>2, <1>8, <1>9, <1>10 DEF Tried
  <1>12. Signed(S, m)'
    BY <1>2, <1>6, <1>7, <1>8, <1>9 DEF Signed, Longer
  <1>13. (IF goal = "again" THEN Again(S, m) ELSE extra = amount)'
    <2>1. CASE goal = "again"
      <3>1. PICK k \in Nat :
              /\ n <= k
              /\ extra + Floor(k) <= amount
              /\ \/ k = Len(utxos)
                 \/ k > 0 /\ k <= m /\ S[k] >= amount + Floor(k) + Dust
        BY <1>4, <2>1 DEF Selection, Again
      <3>2. Floor(k)' = Floor(k)
        BY <1>2 DEF Floor
      <3> QED
        BY <1>2, <1>8, <2>1, <3>1, <3>2 DEF Again
    <2>2. CASE goal # "again"
      BY <1>2, <1>4, <2>2 DEF Selection
    <2> QED
      BY <2>1, <2>2
  <1>14. Selection(S, m)'
    BY <1>2, <1>9, <1>11, <1>12, <1>13 DEF Selection
  <1> QED
    BY <1>14 DEF Selecting

(* What is known of a transaction that was just signed.                     *)
LEMMA SignedCosts ==
  ASSUME CarrierTypeOK, Selecting, pc = "sign"
  PROVE  /\ tx.n = n
         /\ Want \in Nat /\ Floor(n) <= Want /\ Want <= Cost(n)
         /\ fee <= Cost(n)
         /\ Cost(n) <= (tx.vsize + Change + Longer(tx.n)) * rate
         /\ tx.paid < fee + Dust
  <1> USE DEF CarrierTypeOK
  <1>1. PICK m \in Nat : \E S \in [0..m -> Nat] : Selection(S, m)
    BY DEF Selecting
  <1>2. PICK S \in [0..m -> Nat] : Selection(S, m)
    BY <1>1
  <1>3. Signed(S, m) /\ Tried(S, m)
    BY <1>2 DEF Selection
  <1>4. tx.n = n /\ tx.vsize \in Nat /\ tx.paid < fee + Dust
    BY <1>3 DEF Signed
  <1>5. /\ tx.vsize * rate \in Nat
        /\ Floor(n) <= tx.vsize * rate /\ tx.vsize * rate <= Cost(n)
        /\ Cost(n) <= (tx.vsize + Change + Longer(n)) * rate
    BY <1>3, <1>4, SizeCosts DEF Signed
  <1>6. fee <= Cost(n)
    BY <1>3, <1>4, FloorIsNat DEF Tried
  <1> QED
    BY <1>4, <1>5, <1>6 DEF Want

(* A higher fee is a higher target, which the same prefixes do not reach.   *)
LEMMA RetrySelects ==
  ASSUME CarrierTypeOK, Selecting, Retry
  PROVE  Selecting'
  <1> USE DEF CarrierTypeOK
  <1>1. /\ pc = "sign" /\ pc' = "select" /\ fee' = Want /\ n' = 0 /\ total' = 0
        /\ ~(fee >= Want)
        /\ UNCHANGED <<utxos, rate, amount, goal, extra, tx>>
    BY DEF Retry, NextFee, Covers, args
  <1>2. PICK m \in Nat : \E S \in [0..m -> Nat] : Selection(S, m)
    BY <1>1 DEF Selecting
  <1>3. PICK S \in [0..m -> Nat] : Selection(S, m)
    BY <1>2
  <1>4. tx.n = n /\ Want \in Nat /\ Want <= Cost(n) /\ Target' >= Target
    <2>1. Dust \in Nat
      BY CarrierConstants
    <2> QED
      BY <1>1, <2>1, SignedCosts, SMTT(30) DEF Target, Need
  <1>5. Prefixes(S, m)' /\ n' <= m /\ S[n'] = total'
    BY <1>1, <1>3 DEF Selection, Prefixes
  <1>6. Needs(S, n)'
    BY <1>1 DEF Needs
  <1>7. Tried(S, m)'
    <2>1. tx'.n = n /\ n <= m /\ Cost(tx.n)' = Cost(n)
      BY <1>1, <1>3, <1>4 DEF Selection, Cost
    <2>2. Needs(S, tx.n)'
      <3> SUFFICES ASSUME NEW j \in 1..(n - 1) PROVE S[j] < Target'
        BY <1>1, <1>4 DEF Needs
      <3>1. S[j] < Target /\ S[j] \in Nat
        BY <1>3 DEF Selection, Needs
      <3>2. Target \in Nat /\ Target' \in Nat
        <4>1. Dust \in Nat
          BY CarrierConstants
        <4> QED
          BY <1>1, <1>4, <4>1 DEF Target, Need
      <3> QED
        BY <1>4, <3>1, <3>2, SMTT(30)
    <2>3. fee' <= Cost(tx.n)'
      BY <1>1, <1>4, <2>1
    <2> QED
      BY <1>4, <2>1, <2>2, <2>3 DEF Tried
  <1>8. (IF goal = "again" THEN Again(S, m) ELSE extra = amount)'
    <2>1. CASE goal = "again"
      <3>1. PICK k \in Nat :
              /\ n <= k
              /\ extra + Floor(k) <= amount
              /\ \/ k = Len(utxos)
                 \/ k > 0 /\ k <= m /\ S[k] >= amount + Floor(k) + Dust
        BY <1>3, <2>1 DEF Selection, Again
      <3>2. Floor(k)' = Floor(k) /\ n' <= k /\ tx'.n <= k
        BY <1>1, <1>4, <3>1 DEF Floor
      <3> QED
        BY <1>1, <2>1, <3>1, <3>2 DEF Again
    <2>2. CASE goal # "again"
      BY <1>1, <1>3, <2>2 DEF Selection
    <2> QED
      BY <2>1, <2>2
  <1>9. Selection(S, m)'
    BY <1>1, <1>5, <1>6, <1>7, <1>8 DEF Selection
  <1> QED
    BY <1>9 DEF Selecting

LEMMA CallSelects ==
  ASSUME CarrierTypeOK,
         NEW us \in Coins, NEW r \in Rates, NEW a \in Amounts,
         NEW g \in {"carrier", "payout"}, Call(us, r, a, g)
  PROVE  Selecting'
  <1> DEFINE S == [i \in 0..0 |-> 0]
  <1>1. S \in [0..0 -> Nat] /\ S[0] = 0
    OBVIOUS
  <1> HIDE DEF S
  <1>2. /\ utxos' = us /\ extra' = a /\ amount' = a /\ goal' = g
        /\ pc' = "select" /\ fee' = 0 /\ n' = 0 /\ total' = 0
    BY DEF Call, Start
  <1>3. Len(us) \in Nat
    BY CarrierConstants
  <1>4. Prefixes(S, 0)'
    BY <1>1, <1>2, <1>3 DEF Prefixes
  <1>5. Needs(S, n)' /\ Tried(S, 0)'
    BY <1>2 DEF Needs, Tried
  <1>6. Selection(S, 0)'
    BY <1>1, <1>2, <1>4, <1>5 DEF Selection
  <1> QED
    BY <1>1, <1>6 DEF Selecting

(* The coins of the first build reach the targets of the second.            *)
LEMMA AgainSelects ==
  ASSUME CarrierTypeOK, Selecting, BuildAgain
  PROVE  Selecting'
  <1> USE DEF CarrierTypeOK
  <1>1. /\ pc = "sign" /\ goal = "payout" /\ amount >= Want + Dust /\ fee >= Want
        /\ goal' = "again" /\ extra' = amount - Want
        /\ pc' = "select" /\ fee' = 0 /\ n' = 0 /\ total' = 0
        /\ UNCHANGED <<utxos, rate, amount, tx>>
    BY DEF BuildAgain, Built, Covers, Start, Payment, args
  <1>2. PICK m \in Nat : \E S \in [0..m -> Nat] : Selection(S, m)
    BY <1>1 DEF Selecting
  <1>3. PICK S \in [0..m -> Nat] : Selection(S, m)
    BY <1>2
  <1>4. Prefixes(S, m)' /\ n' <= m /\ S[n'] = total'
    BY <1>1, <1>3, SMTT(30) DEF Selection, Prefixes
  <1>5. Needs(S, n)' /\ Tried(S, m)'
    BY <1>1 DEF Needs, Tried
  <1>6. Again(S, m)'
    <2>1. Want \in Nat /\ Floor(n) <= Want /\ Floor(n) \in Nat /\ Dust \in Nat
      BY <1>1, SignedCosts, FloorIsNat, CarrierConstants
    <2>2. n = Len(utxos) \/ (n > 0 /\ n <= m /\ S[n] >= Target)
      BY <1>1, <1>3 DEF Selection, Signed
    <2>3. extra = amount /\ S[n] = total
      BY <1>1, <1>3 DEF Selection
    <2>4. Target >= amount + Floor(n) + Dust /\ Target \in Nat
      BY <1>1, <2>1, <2>3, SMTT(30) DEF Target, Need
    <2>5. extra' + Floor(n) <= amount
      BY <1>1, <2>1
    <2>6. n = Len(utxos) \/ (n > 0 /\ n <= m /\ S[n] >= amount + Floor(n) + Dust)
      BY <2>1, <2>2, <2>3, <2>4, SMTT(30)
    <2>7. n \in Nat /\ \A k \in Nat : Floor(k)' = Floor(k)
      BY <1>1 DEF Floor
    <2>8. /\ n' <= n
          /\ extra' + Floor(n) <= amount'
          /\ n = Len(utxos') \/ (n > 0 /\ n <= m /\ S[n] >= amount' + Floor(n) + Dust)
      BY <1>1, <2>5, <2>6
    <2> QED
      BY <1>1, <2>7, <2>8 DEF Again
  <1>7. Selection(S, m)'
    BY <1>1, <1>4, <1>5, <1>6 DEF Selection
  <1> QED
    BY <1>7 DEF Selecting

(* A carrier is returned when the fee covers it.                            *)
LEMMA ReturnBounded ==
  ASSUME CarrierTypeOK, Selecting, ReturnTx
  PROVE  Bounded'
  <1> USE DEF CarrierTypeOK
  <1>1. /\ pc = "sign" /\ pc' = "ok"
        /\ UNCHANGED <<utxos, rate, amount, goal, extra, pass, fee, n, total, tx>>
    BY DEF ReturnTx, Built, Ends, args
  <1>2. /\ tx.n = n /\ fee <= Cost(n) /\ tx.paid < fee + Dust
        /\ Cost(n) <= (tx.vsize + Change + Longer(tx.n)) * rate
    BY <1>1, SignedCosts
  <1>3. /\ Cost(n) \in Nat /\ Floor(n) \in Nat /\ Dust \in Nat
        /\ Cost(n) = Floor(n) + (Change + Longer(n)) * rate
        /\ (Change + Longer(n)) * rate \in Nat
    BY FloorIsNat, CarrierConstants
  <1>4. (tx.vsize + Change + Longer(tx.n)) * rate \in Nat
    <2>1. Change \in Nat /\ Longer(tx.n) \in Nat /\ tx.vsize \in Nat /\ rate \in Nat
      BY CarrierConstants, LongerIsNat
    <2>2. tx.vsize + Change + Longer(tx.n) \in Nat
      BY <2>1
    <2> QED
      BY <2>1, <2>2
  <1>5. NotOverpaid'
    <2>1. tx.paid < (tx.vsize + Change + Longer(tx.n)) * rate + Dust
      BY <1>2, <1>3, <1>4, SMTT(30)
    <2> QED
      BY <1>1, <2>1 DEF NotOverpaid
  <1>6. VaultPays'
    <2> SUFFICES ASSUME goal = "again"
                 PROVE  extra + tx.paid < amount + (Change + Longer(tx.n)) * rate + Dust
      BY <1>1 DEF VaultPays
    <2>1. PICK m \in Nat : \E S \in [0..m -> Nat] : Selection(S, m)
      BY <1>1 DEF Selecting
    <2>2. PICK S \in [0..m -> Nat] : Selection(S, m)
      BY <2>1
    <2>3. PICK k \in Nat : n <= k /\ extra + Floor(k) <= amount
      BY <2>2 DEF Selection, Again
    <2>4. Floor(n) <= Floor(k) /\ Floor(k) \in Nat
      BY <2>3, CostGrows, FloorIsNat
    <2> DEFINE more == (Change + Longer(n)) * rate
    <2> HIDE DEF more
    <2>5. more \in Nat /\ fee <= Floor(n) + more
      BY <1>2, <1>3 DEF more
    <2>6. extra + tx.paid < amount + more + Dust
      <3>1. /\ extra \in Nat /\ amount \in Nat /\ fee \in Nat /\ tx.paid \in Nat
            /\ Dust \in Nat /\ Floor(n) \in Nat
        BY <1>3
      <3>2. tx.paid < fee + Dust
        BY <1>2
      <3> QED
        BY ONLY <2>3, <2>4, <2>5, <3>1, <3>2, SMTT(30)
    <2> QED
      BY <1>2, <2>6 DEF more
  <1> QED
    BY <1>5, <1>6 DEF Bounded

LEMMA StepSelects ==
  CarrierTypeOK /\ Selecting /\ Bounded /\ [CarrierNext]_carrier => Selecting' /\ Bounded'
  <1> SUFFICES ASSUME CarrierTypeOK, Selecting, Bounded, [CarrierNext]_carrier
               PROVE  Selecting' /\ Bounded'
    OBVIOUS
  <1>1. CASE UNCHANGED carrier
    <2>1. Bounded'
      BY <1>1 DEF carrier, Bounded, NotOverpaid, VaultPays
    <2>2. Selecting'
      BY <1>1, ZenonT(60) DEF carrier, Selecting, Selection, Prefixes, Needs, Tried, Signed, Again,
                  Floor, Cost, Target, Need
    <2> QED
      BY <2>1, <2>2
  <1>2. CASE pc' \notin {"select", "sign"} /\ ~ReturnTx /\ CarrierNext
    <2>1. pc' \in Errors
      BY <1>2 DEF CarrierNext, Call, Start, NeedOverflows, AddCoin, Insufficient, Sign,
                  WantOverflows, Retry, GiveUp, PayoutBelowFee, BuildAgain, Ends, Errors
    <2> QED
      BY <1>2, <2>1 DEF Selecting, Bounded, NotOverpaid, VaultPays, Errors
  <1>3. CASE ReturnTx
    BY <1>3, ReturnBounded DEF ReturnTx, Ends, Selecting
  <1>4. CASE pc' \in {"select", "sign"} /\ CarrierNext
    <2>1. Bounded'
      BY <1>4 DEF Bounded, NotOverpaid, VaultPays
    <2>2. Selecting'
      <3>1. \/ \E us \in Coins, r \in Rates, a \in Amounts, g \in {"carrier", "payout"} :
                  Call(us, r, a, g)
            \/ AddCoin \/ Sign \/ Retry \/ BuildAgain
        BY <1>4 DEF CarrierNext, NeedOverflows, Insufficient,
                    WantOverflows, GiveUp, ReturnTx, PayoutBelowFee, Ends
      <3> QED
        BY <3>1, CallSelects, AddCoinSelects, SignSelects, RetrySelects, AgainSelects
    <2> QED
      BY <2>1, <2>2
  <1> QED
    BY <1>1, <1>2, <1>3, <1>4

-----------------------------------------------------------------------------

(* A carrier pays no more than its size, a change output and longer          *)
(* signatures would cost, and what is below the dust limit, whatever the     *)
(* coins: build_carrier never keeps the fee of a larger selection.          *)
THEOREM CarriersAreNotOverpaid == CarrierSpec => []NotOverpaid
  <1>1. CarrierTypeOK /\ Selecting /\ Bounded /\ [CarrierNext]_carrier
          => (Selecting /\ Bounded)'
    BY StepSelects
  <1>2. Bounded => NotOverpaid
    BY DEF Bounded
  <1>3. Carriers => CarrierTypeOK
    BY DEF Carriers
  <1> QED
    BY <1>1, <1>2, <1>3, InitSelects, CarriersInvariant, PTL DEF CarrierSpec

(* A payout costs the vault no more than the request, but for a change       *)
(* output, longer signatures and dust: the second carrier never needs more   *)
(* coins than the one whose fee has left the payment.                       *)
THEOREM VaultPaysTheRequest == CarrierSpec => []VaultPays
  <1>1. CarrierTypeOK /\ Selecting /\ Bounded /\ [CarrierNext]_carrier
          => (Selecting /\ Bounded)'
    BY StepSelects
  <1>2. Bounded => VaultPays
    BY DEF Bounded
  <1>3. Carriers => CarrierTypeOK
    BY DEF Carriers
  <1> QED
    BY <1>1, <1>2, <1>3, InitSelects, CarriersInvariant, PTL DEF CarrierSpec
-----------------------------------------------------------------------------
(* Up to four coins, each worth twice what it costs to spend.  A pass that   *)
(* does not converge has a longer signature than the one before, or more     *)
(* coins; a coin leaves room for the pass that adds it and for a longer      *)
(* signature, so after the first pass, whose fee was none, coins are added   *)
(* in one pass only.                                                        *)

Few ==
  /\ Len(utxos) <= 4
  /\ \A k \in DOMAIN utxos : utxos[k] >= Dust + 2 * In * rate

(* Signatures may vary by Slack bytes: then twice as many passes and four    *)
(* are needed, the code's six for one byte.  And no rate buys them for more  *)
(* than the dust limit.                                                    *)
Modest == Passes >= 2 * Slack + 4 /\ \A r \in Rates : Slack * r <= Dust

(* The value of k coins.                                                   *)
Coin(j, k) == IF j <= k THEN utxos[j] ELSE 0
Value(k) == Coin(1, k) + Coin(2, k) + Coin(3, k) + Coin(4, k)

(* What k coins must be worth if no size they can have is to need another.   *)
Ample(k) == extra + Floor(k) + (Change + Slack) * rate + Dust
Settled(k) == k = Len(utxos) \/ Value(k) >= Ample(k)
Nearly(k) == k = Len(utxos) \/ k >= 3 \/ Value(k) + (In + Slack) * rate >= Ample(k)

(* What the signatures drawn add to the shortest there are.                 *)
Shortest(t) == Base + In * t.n + IF t.change > 0 THEN Change ELSE 0
Drawn(t) == t.vsize - Shortest(t)

(* What is known when pass p begins with the fee of t: with the same coins,  *)
(* every pass has drawn longer signatures than the one before, and coins    *)
(* were added for the last time in the pass that is Drawn(t) passes back.   *)
Level(p, t) ==
  /\ p >= 3 => Nearly(t.n)
  /\ ~Settled(t.n) => p <= Drawn(t) + 3
  /\ p <= Drawn(t) + Slack + 4

(* A transaction that was signed, and the coins it could not do without.    *)
Minimal(t) ==
  /\ t.n <= Len(utxos)
  /\ Drawn(t) \in 0..Slack
  /\ t.n = Len(utxos) \/ (t.n > 0 /\ t.change > 0)
  /\ t.change = 0 => Value(t.n) < Target
  /\ \A j \in 1..(t.n - 1) : Value(j) < Target

Passing ==
  /\ rate \in Rates /\ pass >= 1
  /\ n <= Len(utxos) /\ total = Value(n)
  /\ \A j \in 1..(n - 1) : Value(j) < Target
  /\ pc = "select" /\ pass > 1 => Minimal(tx) /\ fee = Want /\ Level(pass, tx)
  /\ pc = "sign" => /\ tx.n = n /\ Minimal(tx)
                    /\ fee < Want => Level(pass + 1, tx)

Converging ==
  Few => /\ pc \in {"select", "sign"} => Passing
         /\ pc # "FeeDidNotConverge"

LEMMA FewCoins ==
  ASSUME CarrierTypeOK, Few
  PROVE  /\ Len(utxos) \in 0..4 /\ DOMAIN utxos = 1..Len(utxos)
         /\ \A k \in 1..Len(utxos) : utxos[k] \in Nat /\ utxos[k] >= Dust + 2 * In * rate
  <1>1. utxos \in Seq(Nat) /\ Len(utxos) <= 4
    BY DEF CarrierTypeOK, Few
  <1> DEFINE l == Len(utxos)
  <1>2. l \in 0..4 /\ DOMAIN utxos = 1..l
    <2>1. l \in Nat /\ DOMAIN utxos = 1..l /\ l <= 4
      BY <1>1
    <2> HIDE DEF l
    <2> QED
      BY <2>1
  <1>3. \A k \in 1..Len(utxos) : utxos[k] \in Nat
    BY <1>1
  <1>4. \A k \in 1..Len(utxos) : utxos[k] >= Dust + 2 * In * rate
    BY <1>2 DEF Few
  <1> QED
    BY <1>2, <1>3, <1>4

LEMMA ValueIs ==
  ASSUME CarrierTypeOK, Few
  PROVE  /\ Value(0) = 0
         /\ \A k \in 0..Len(utxos) : Value(k) \in Nat
         /\ \A k \in 0..(Len(utxos) - 1) : Value(k + 1) = Value(k) + utxos[k + 1]
  <1>1. /\ Len(utxos) \in 0..4
        /\ \A k \in 1..Len(utxos) : utxos[k] \in Nat
    BY FewCoins
  <1> DEFINE l == Len(utxos)
  <1>2. l = 0 \/ l = 1 \/ l = 2 \/ l = 3 \/ l = 4
    BY <1>1
  <1> HIDE DEF l
  <1>3. \A j \in 1..4, k \in 0..l : Coin(j, k) = IF j <= k THEN utxos[j] ELSE 0
    BY DEF Coin
  <1>4. \A j \in 1..4, k \in 0..l : Coin(j, k) \in Nat
    BY <1>1, <1>2, <1>3, SMTT(30) DEF l
  <1>5. Value(0) = 0
    BY DEF Value, Coin
  <1>6. \A k \in 0..l : Value(k) \in Nat
    BY <1>4 DEF Value
  <1>7. ASSUME NEW k \in 0..(l - 1)
        PROVE  Value(k + 1) = Value(k) + utxos[k + 1]
    <2>1. k = 0 \/ k = 1 \/ k = 2 \/ k = 3
      BY <1>2
    <2>2. \A j \in 1..(k + 1) : utxos[j] \in Nat
      BY <1>1, <1>2 DEF l
    <2>3. CASE k = 0
      BY <2>2, <2>3 DEF Value, Coin
    <2>4. CASE k = 1
      BY <2>2, <2>4 DEF Value, Coin
    <2>5. CASE k = 2
      BY <2>2, <2>5 DEF Value, Coin
    <2>6. CASE k = 3
      BY <2>2, <2>6 DEF Value, Coin
    <2> QED
      BY <2>1, <2>3, <2>4, <2>5, <2>6
  <1> QED
    BY <1>5, <1>6, <1>7 DEF l

(* More coins are worth more, each at least twice its cost and dust.        *)
LEMMA ValueGrows ==
  ASSUME CarrierTypeOK, Few, rate \in Rates, \A r \in Rates : Slack * r <= Dust,
         NEW k \in 0..Len(utxos), NEW m \in 0..Len(utxos), k < m
  PROVE  /\ Value(m) >= Value(k) + (m - k) * (2 * (In * rate) + Slack * rate)
         /\ Floor(m) = Floor(k) + (m - k) * (In * rate)
  <1>1. /\ Len(utxos) \in 0..4 /\ Dust \in Nat /\ In \in Nat /\ Base \in Nat
        /\ rate \in Nat /\ Slack \in Nat /\ Slack * rate <= Dust
    BY FewCoins, CarrierConstants DEF CarrierTypeOK
  <1> DEFINE i == In * rate  w == Slack * rate  least == 2 * i + w
  <1>2. i \in Nat /\ 2 * In * rate = 2 * i /\ w \in Nat /\ w <= Dust
    BY <1>1
  <1> HIDE DEF i, w
  <1>3. \A j \in 0..(Len(utxos) - 1) :
          Value(j) \in Nat /\ Value(j + 1) \in Nat /\ Value(j + 1) >= Value(j) + least
    <2> SUFFICES ASSUME NEW j \in 0..(Len(utxos) - 1)
                 PROVE  /\ Value(j) \in Nat /\ Value(j + 1) \in Nat
                        /\ Value(j + 1) >= Value(j) + least
      OBVIOUS
    <2>1. j + 1 \in 1..Len(utxos) /\ j \in 0..Len(utxos) /\ j + 1 \in 0..Len(utxos)
      BY <1>1
    <2>2. utxos[j + 1] \in Nat /\ utxos[j + 1] >= Dust + 2 * i
      BY <1>2, <2>1, FewCoins
    <2>3. Value(j) \in Nat /\ Value(j + 1) \in Nat /\ Value(j + 1) = Value(j) + utxos[j + 1]
      BY <2>1, ValueIs
    <2> QED
      BY <1>1, <1>2, <2>2, <2>3, SMTT(30)
  <1> DEFINE v == [j \in 0..4 |-> Value(j)]  l == Len(utxos)
  <1>4. Value(m) >= Value(k) + (m - k) * least
    <2>1. ASSUME NEW j \in 0..(l - 1)
          PROVE  v[j] \in Nat /\ v[j + 1] \in Nat /\ v[j + 1] >= v[j] + least
      <3>1. j \in 0..4 /\ j + 1 \in 0..4
        <4>1. l \in 0..4
          BY <1>1
        <4> HIDE DEF l
        <4> QED
          BY ONLY <4>1, j \in 0..(l - 1)
      <3>2. v[j] = Value(j) /\ v[j + 1] = Value(j + 1)
        BY <3>1
      <3> HIDE DEF v, least
      <3> QED
        BY <1>3, <3>2
    <2>2. v[k] = Value(k) /\ v[m] = Value(m) /\ l \in 0..4 /\ k \in 0..l /\ m \in 0..l
      <3>1. k \in 0..4 /\ m \in 0..4
        <4>1. l \in 0..4 /\ k \in 0..l /\ m \in 0..l
          BY <1>1
        <4> HIDE DEF l
        <4> QED
          BY ONLY <4>1
      <3> QED
        BY <1>1, <3>1
    <2>3. least \in Nat
      BY <1>1, <1>2
    <2> HIDE DEF v, least, l
    <2>4. \/ m = k + 1 \/ (m = k + 2 /\ k + 1 \in 0..(l - 1))
          \/ (m = k + 3 /\ k + 1 \in 0..(l - 1) /\ k + 2 \in 0..(l - 1))
          \/ (m = k + 4 /\ k + 1 \in 0..(l - 1) /\ k + 2 \in 0..(l - 1) /\ k + 3 \in 0..(l - 1))
      BY <2>2
    <2>5. k \in 0..(l - 1) /\ k \in Nat
      BY <2>2
    <2>6. v[k + 1] >= v[k] + least /\ v[k] \in Nat /\ v[k + 1] \in Nat
      BY <2>1, <2>5
    <2>7. CASE m = k + 1
      BY <2>2, <2>3, <2>5, <2>6, <2>7
    <2>8. k + 1 \in 0..(l - 1) => v[k + 2] >= v[k + 1] + least /\ v[k + 2] \in Nat
      BY <2>1, <2>5
    <2>9. k + 2 \in 0..(l - 1) => v[k + 3] >= v[k + 2] + least /\ v[k + 3] \in Nat
      BY <2>1, <2>5
    <2>10. k + 3 \in 0..(l - 1) => v[k + 4] >= v[k + 3] + least /\ v[k + 4] \in Nat
      BY <2>1, <2>5
    <2>11. CASE m = k + 2 /\ k + 1 \in 0..(l - 1)
      <3>1. m - k = 2 /\ v[m] >= v[k] + 2 * least
        BY <2>3, <2>5, <2>6, <2>8, <2>11, SMTT(30)
      <3> QED
        BY <2>2, <3>1
    <2>12. CASE m = k + 3 /\ k + 1 \in 0..(l - 1) /\ k + 2 \in 0..(l - 1)
      <3>1. m - k = 3 /\ v[m] >= v[k] + 3 * least
        BY <2>3, <2>5, <2>6, <2>8, <2>9, <2>12, SMTT(30)
      <3> QED
        BY <2>2, <3>1
    <2>13. CASE m = k + 4 /\ k + 1 \in 0..(l - 1) /\ k + 2 \in 0..(l - 1) /\ k + 3 \in 0..(l - 1)
      <3>1. v[k + 3] >= v[k] + 3 * least /\ v[k + 3] \in Nat
        BY <2>3, <2>5, <2>6, <2>8, <2>9, <2>13, SMTT(30)
      <3>2. m - k = 4 /\ v[m] >= v[k + 3] + least /\ v[m] \in Nat
        BY <2>5, <2>10, <2>13
      <3>3. v[m] >= v[k] + 4 * least
        BY <2>3, <2>6, <3>1, <3>2, SMTT(30)
      <3> QED
        BY <2>2, <3>2, <3>3
    <2> QED
      BY <2>4, <2>7, <2>11, <2>12, <2>13
  <1>5. Floor(m) = Floor(k) + (m - k) * i
    <2>1. k \in Nat /\ m \in Nat /\ m - k \in Nat
      BY <1>1
    <2>2. In * m = In * k + In * (m - k) /\ In * k \in Nat /\ In * (m - k) \in Nat
      BY <1>1, <2>1
    <2> DEFINE a == In * k  b == In * (m - k)
    <2>3. b * rate = (m - k) * i
      BY <1>1, <2>1 DEF i
    <2> HIDE DEF a, b
    <2>4. (Base + (a + b)) * rate = (Base + a) * rate + b * rate
      BY <1>1, <2>2 DEF a, b
    <2>5. Floor(m) = (Base + (a + b)) * rate /\ Floor(k) = (Base + a) * rate
      BY <2>2 DEF Floor, a, b
    <2> QED
      BY <2>3, <2>4, <2>5
  <1> QED
    BY <1>4, <1>5 DEF i, w

Signable == [n : Nat, total : Nat, change : Nat, paid : Nat, vsize : Nat]

(* The cost of a transaction, by its parts.                                 *)
LEMMA CostOf ==
  ASSUME rate \in Nat, extra \in Nat, NEW t \in Signable, Drawn(t) \in 0..Slack
  PROVE  /\ Floor(t.n) \in Nat /\ Change * rate \in Nat /\ Slack * rate \in Nat
         /\ t.vsize * rate >= Floor(t.n) + (IF t.change > 0 THEN Change * rate ELSE 0)
         /\ t.vsize * rate <= Floor(t.n) + Change * rate + Slack * rate
         /\ Ample(t.n) = extra + Floor(t.n) + Change * rate + Slack * rate + Dust
  <1>1. /\ Base \in Nat /\ In \in Nat /\ Change \in Nat /\ Dust \in Nat /\ Slack \in Nat
        /\ t.n \in Nat /\ t.vsize \in Nat /\ t.change \in Nat
    BY CarrierConstants DEF Signable
  <1> DEFINE size == Base + In * t.n
             more == IF t.change > 0 THEN Change ELSE 0
             long == Drawn(t)
  <1>2. size \in Nat
    <2>1. In * t.n \in Nat
      BY <1>1
    <2> QED
      BY <1>1, <2>1
  <1>3. more \in Nat /\ more <= Change /\ Shortest(t) = size + more
    BY <1>1, <1>2 DEF Shortest
  <1>4. t.vsize = size + more + long /\ long \in Nat /\ long <= Slack
    <2> HIDE DEF size, more
    <2> QED
      BY <1>1, <1>2, <1>3 DEF Drawn
  <1>5. Floor(t.n) = size * rate
    BY DEF Floor
  <1>6. more * rate = IF t.change > 0 THEN Change * rate ELSE 0
    BY <1>1
  <1>7. /\ (Change + Slack) * rate = Change * rate + Slack * rate
        /\ Change * rate \in Nat /\ Slack * rate \in Nat
    BY <1>1
  <1> HIDE DEF size, more, long
  <1>8. (size + more + long) * rate = size * rate + more * rate + long * rate
        /\ size * rate \in Nat
    BY <1>2, <1>3, <1>4
  <1>9. /\ more * rate <= Change * rate /\ more * rate \in Nat
        /\ long * rate <= Slack * rate /\ long * rate \in Nat
    BY <1>1, <1>3, <1>4, Monotone
  <1> DEFINE c == Change * rate  w == Slack * rate  f == Floor(t.n)
             a == more * rate  b == long * rate
  <1>10. Ample(t.n) = extra + f + c + w + Dust
    <2> DEFINE d == (Change + Slack) * rate
    <2>1. d = c + w /\ c \in Nat /\ w \in Nat /\ f \in Nat /\ extra \in Nat /\ Dust \in Nat
      BY <1>1, <1>7, FloorIsNat
    <2>2. Ample(t.n) = extra + f + d + Dust
      BY DEF Ample
    <2> HIDE DEF c, d, w, f
    <2> QED
      BY ONLY <2>1, <2>2
  <1>11. /\ t.vsize * rate = f + a + b /\ f \in Nat /\ a \in Nat /\ b \in Nat
         /\ a <= c /\ b <= w /\ c \in Nat /\ w \in Nat
    BY <1>4, <1>5, <1>7, <1>8, <1>9
  <1> DEFINE v == t.vsize * rate
  <1>12. v >= f + a /\ v <= f + c + w
    <2> HIDE DEF v, f, a, b, c, w
    <2> QED
      BY <1>11 DEF v
  <1> QED
    BY <1>6, <1>10, <1>11, <1>12

(* What every selection of a build selects anew.                            *)
LEMMA NoFewerCoins ==
  ASSUME CarrierTypeOK, Few, Minimal(tx), n <= Len(utxos), total = Value(n), Selected
  PROVE  tx.n <= n
  <1>1. n \in Nat /\ tx.n \in Nat /\ Len(utxos) \in Nat /\ tx.n <= Len(utxos)
    BY FewCoins DEF CarrierTypeOK, Minimal
  <1>2. SUFFICES ASSUME n < tx.n PROVE FALSE
    BY <1>1
  <1>3. n > 0 /\ total >= Target
    BY <1>1, <1>2 DEF Selected
  <1>4. Value(n) < Target
    BY <1>1, <1>2, <1>3 DEF Minimal
  <1>5. Target \in Int /\ Value(n) \in Nat
    <2>1. Dust \in Nat
      BY CarrierConstants
    <2> QED
      BY <1>1, <2>1, ValueIs DEF Target, Need, CarrierTypeOK
  <1> QED
    BY <1>3, <1>4, <1>5

(* A pass with the coins of the one before costs more only by longer        *)
(* signatures.                                                              *)
LEMMA SameCoins ==
  ASSUME CarrierTypeOK, Few, rate \in Rates, pass > 1,
         Minimal(tx), fee = Want, Level(pass, tx), total = Value(n),
         NEW t \in Signable, t.n = n, t.change = Outputs.change,
         Drawn(t) \in 0..Slack, fee < t.vsize * rate,
         n = tx.n, n = Len(utxos) \/ total >= Target
  PROVE  Level(pass + 1, t)
  <1>1. /\ rate \in Nat /\ rate > 0 /\ extra \in Nat /\ fee \in Nat /\ total \in Nat
        /\ Dust \in Nat /\ Dust > 0 /\ tx \in Signable /\ pass \in Nat
        /\ Base \in Nat /\ In \in Nat /\ Change \in Nat /\ Slack \in Nat
    BY CarrierConstants DEF CarrierTypeOK, Signable
  <1>2. tx.n \in Nat /\ tx.change \in Nat /\ t.change \in Nat /\ t.vsize \in Nat /\ tx.vsize \in Nat
    BY <1>1 DEF Signable
  <1>3. tx.vsize < t.vsize
    <2> SUFFICES ASSUME t.vsize <= tx.vsize PROVE FALSE
      BY <1>2
    <2>1. t.vsize * rate <= tx.vsize * rate /\ t.vsize * rate \in Nat /\ tx.vsize * rate \in Nat
      BY <1>1, <1>2, Monotone
    <2> QED
      BY <2>1 DEF Want
  <1>4. t.change > 0 => tx.change > 0
    <2> SUFFICES ASSUME t.change > 0, tx.change = 0 PROVE FALSE
      BY <1>2
    <2>1. total - extra - fee >= Dust
      BY <1>1 DEF Outputs
    <2>2. total < extra + fee + Dust
      BY DEF Minimal, Target, Need
    <2> QED
      BY <1>1, <2>1, <2>2
  <1> DEFINE size == Base + In * n
  <1>5. /\ Shortest(tx) = size + IF tx.change > 0 THEN Change ELSE 0
        /\ Shortest(t) = size + IF t.change > 0 THEN Change ELSE 0
        /\ size \in Nat
    <2>1. In * n \in Nat
      BY <1>1, <1>2, SMTT(30)
    <2> QED
      BY <1>1, <2>1 DEF Shortest
  <1> HIDE DEF size
  <1>6. Drawn(tx) \in 0..Slack /\ Drawn(t) \in 0..Slack /\ Drawn(t) >= Drawn(tx) + 1
    <2>1. Shortest(t) \in Nat /\ Shortest(tx) \in Nat /\ Shortest(t) <= Shortest(tx)
      BY <1>1, <1>2, <1>4, <1>5
    <2>2. Drawn(tx) \in 0..Slack
      BY DEF Minimal
    <2> QED
      BY <1>1, <1>2, <1>3, <2>1, <2>2, SMTT(30) DEF Drawn
  <1>7. Nearly(n)
    <2>1. CASE pass >= 3
      BY <2>1 DEF Level
    <2>2. CASE n = Len(utxos)
      BY <2>2 DEF Nearly
    <2>3. CASE n # Len(utxos)
      <3>1. tx.change > 0 /\ total >= extra + fee + Dust
        BY <2>3 DEF Minimal, Target, Need
      <3> DEFINE f == Floor(n)  c == Change * rate  i == In * rate  w == Slack * rate
      <3>2. /\ f \in Nat /\ c \in Nat /\ w \in Nat /\ fee >= f + c
            /\ Ample(n) = extra + f + c + w + Dust
        BY <1>1, <1>6, <3>1, CostOf DEF Want
      <3>3. (In + Slack) * rate = i + w /\ i \in Nat
        BY <1>1
      <3> DEFINE j == (In + Slack) * rate
      <3> HIDE DEF f, c, i, j, w
      <3>4. total + j >= extra + f + c + w + Dust
        BY <1>1, <3>1, <3>2, <3>3 DEF j
      <3> QED
        BY <3>2, <3>4 DEF Nearly, j
    <2> QED
      BY <2>2, <2>3
  <1>8. /\ ~Settled(n) => pass + 1 <= Drawn(t) + 3
        /\ pass + 1 <= Drawn(t) + Slack + 4
    BY <1>1, <1>6, SMTT(30) DEF Level
  <1> QED
    BY <1>7, <1>8 DEF Level

(* A pass with more coins leaves room for its cost.                         *)
LEMMA MoreCoins ==
  ASSUME CarrierTypeOK, Few, rate \in Rates, \A r \in Rates : Slack * r <= Dust, pass > 1,
         Minimal(tx), fee = Want, Level(pass, tx), total = Value(n),
         n <= Len(utxos), \A j \in 1..(n - 1) : Value(j) < Target,
         NEW t \in Signable, t.n = n, Drawn(t) \in 0..Slack,
         tx.n < n, n = Len(utxos) \/ total >= Target
  PROVE  Level(pass + 1, t)
  <1> DEFINE k == tx.n  i == In * rate  f == Floor(k)  c == Change * rate
             w == Slack * rate
  <1>1. /\ rate \in Nat /\ rate > 0 /\ extra \in Nat /\ fee \in Nat /\ total \in Nat
        /\ Dust \in Nat /\ Dust > 0 /\ tx \in Signable /\ pass \in Nat /\ Slack \in Nat
        /\ In \in Nat /\ k \in Nat /\ n \in Nat /\ Len(utxos) \in 0..4
    BY CarrierConstants, FewCoins DEF CarrierTypeOK, Signable
  <1>2. k > 0 /\ tx.change > 0 /\ k # Len(utxos)
    BY <1>1 DEF Minimal
  <1>3. /\ f \in Nat /\ c \in Nat /\ w \in Nat /\ fee >= f + c /\ fee <= f + c + w
        /\ Ample(k) = extra + f + c + w + Dust
        /\ i \in Nat /\ (In + Slack) * rate = i + w
    <2>1. Drawn(tx) \in 0..Slack
      BY DEF Minimal
    <2>2. i \in Nat /\ (In + Slack) * rate = i + w
      BY <1>1
    <2> QED
      BY <1>1, <1>2, <2>1, <2>2, CostOf DEF Want
  <1>4. Value(k) \in Nat /\ Value(k) < extra + fee + Dust
    <2>1. k \in 1..(n - 1) /\ k \in 0..Len(utxos)
      BY <1>1, <1>2
    <2> QED
      BY <2>1, ValueIs DEF Target, Need
  <1>5. ~Settled(k)
    <2> HIDE DEF f, c, w
    <2> QED
      BY <1>1, <1>2, <1>3, <1>4, SMTT(30) DEF Settled
  <1>6. pass <= Drawn(tx) + 3 /\ Drawn(tx) \in 0..Slack
    BY <1>5 DEF Level, Minimal
  <1> DEFINE d == n - k
  <1>7. /\ d \in 1..4
        /\ Value(n) >= Value(k) + d * (2 * i + w)
        /\ Floor(n) = f + d * i
        /\ Ample(n) = extra + Floor(n) + c + w + Dust
    <2>1. k \in 0..Len(utxos) /\ n \in 0..Len(utxos) /\ d \in 1..4
      <3> DEFINE l == Len(utxos)
      <3>1. k \in Nat /\ n \in Nat /\ l \in 0..4 /\ k < n /\ n <= l
        BY <1>1
      <3> HIDE DEF k, l, d
      <3>2. k \in 0..l /\ n \in 0..l /\ n - k \in 1..4
        BY ONLY <3>1
      <3> QED
        BY <3>2 DEF l, d
    <2>2. /\ Value(n) >= Value(k) + d * (2 * i + w)
          /\ Floor(n) = f + d * i
      BY <2>1, ValueGrows
    <2>3. Ample(n) = extra + Floor(n) + (Change + Slack) * rate + Dust
      BY DEF Ample
    <2>4. (Change + Slack) * rate = c + w
      BY <1>1, CarrierConstants
    <2>5. Floor(n) \in Nat
      BY <1>1, FloorIsNat
    <2> HIDE DEF c, w, f, i
    <2>6. Ample(n) = extra + Floor(n) + c + w + Dust
      <3> DEFINE g == Floor(n)  e == (Change + Slack) * rate
      <3>1. Ample(n) = extra + g + e + Dust /\ e = c + w /\ g \in Nat
        BY <2>3, <2>4, <2>5
      <3> HIDE DEF e, g
      <3> QED
        BY <1>1, <1>3, <3>1, SMTT(30) DEF g
    <2> QED
      BY <2>1, <2>2, <2>6
  <1>8. Nearly(n)
    <2>1. CASE n = Len(utxos) \/ n >= 3
      BY <2>1 DEF Nearly
    <2>2. CASE ~(n = Len(utxos) \/ n >= 3)
      <3>1. d = 1
        BY <1>1, <1>2, <2>2
      <3>2. total >= extra + fee + Dust
        BY <2>2 DEF Target, Need
      <3>3. Floor(n) = f + i
        BY <1>3, <1>7, <3>1
      <3> HIDE DEF f, c, i, d, k, w
      <3>4. Value(n) + (i + w) >= extra + Floor(n) + c + w + Dust
        BY <1>1, <1>3, <3>2, <3>3, SMTT(30)
      <3> QED
        BY <1>3, <1>7, <3>4 DEF Nearly
    <2> QED
      BY <2>1, <2>2
  <1>9. ASSUME pass >= 3 PROVE Settled(n)
    <2>1. Nearly(k)
      BY <1>9 DEF Level
    <2>2. CASE k >= 3
      <3>1. n = Len(utxos)
        <4> DEFINE l == Len(utxos)
        <4>1. k \in Nat /\ n \in Nat /\ l \in 0..4 /\ k < n /\ n <= l /\ k >= 3
          BY <1>1, <2>2
        <4> HIDE DEF k, l
        <4> QED
          BY ONLY <4>1, SMTT(30) DEF l
      <3> QED
        BY <3>1 DEF Settled
    <2>3. CASE Value(k) + (In + Slack) * rate >= Ample(k)
      <3>1. Value(k) + i + w >= extra + f + c + w + Dust
        <4> DEFINE a == Value(k)  j == (In + Slack) * rate
        <4>1. a \in Nat /\ a + j >= extra + f + c + w + Dust /\ j = i + w
              /\ i \in Nat /\ w \in Nat
          BY <1>3, <1>4, <2>3
        <4> HIDE DEF a, i, j, f, c, w
        <4> QED
          BY <1>1, <4>1, SMTT(30) DEF a
      <3> DEFINE di == d * i  dl == d * (2 * i + w)
      <3>2. /\ di \in Nat /\ dl \in Nat /\ dl >= di + i + w
        <4>1. d \in Nat /\ d >= 1 /\ i \in Nat /\ w \in Nat /\ i + w \in Nat
          <5>1. d \in 1..4 /\ i \in Nat /\ w \in Nat
            BY <1>1, <1>3, <1>7
          <5> HIDE DEF i, d, w
          <5> QED
            BY ONLY <5>1
        <4> HIDE DEF i, d, w
        <4>2. dl = di + d * (i + w) /\ di \in Nat
          BY <4>1
        <4>3. 1 * (i + w) <= d * (i + w) /\ d * (i + w) \in Nat
          BY <4>1, Monotone
        <4> DEFINE e == d * (i + w)
        <4> HIDE DEF e, di, dl
        <4>4. e >= i + w /\ e \in Nat /\ dl = di + e /\ di \in Nat
          <5>1. 1 * (i + w) = i + w
            BY <4>1
          <5> QED
            BY <4>2, <4>3, <5>1 DEF e
        <4> QED
          BY <4>1, <4>4
      <3>3. Value(n) \in Nat
        BY <1>1, ValueIs
      <3>4. Value(n) >= Value(k) + dl /\ Floor(n) = f + di
        BY <1>7
      <3> DEFINE a == Value(k)  b == Value(n)  g == Floor(n)
      <3>5. a \in Nat /\ b \in Nat /\ b >= a + dl /\ g = f + di /\ Ample(n) = extra + g + c + w + Dust
            /\ a + i + w >= extra + f + c + w + Dust
        BY <1>4, <1>7, <3>1, <3>3, <3>4
      <3> HIDE DEF f, c, i, d, di, dl, a, b, g, k, w
      <3>6. b >= extra + g + c + w + Dust
        BY <1>1, <1>3, <3>2, <3>5
      <3> QED
        BY <3>5, <3>6 DEF Settled, b
    <2> QED
      BY <1>2, <2>1, <2>2, <2>3 DEF Nearly
  <1>10. /\ ~Settled(n) => pass + 1 <= Drawn(t) + 3
         /\ pass + 1 <= Drawn(t) + Slack + 4
    <2>1. Drawn(t) \in Nat /\ Slack \in Nat /\ pass \in Nat /\ pass <= Slack + 3
      BY <1>1, <1>6
    <2> QED
      BY <1>9, <2>1
  <1> QED
    BY <1>8, <1>10 DEF Level

LEMMA StartPasses ==
  ASSUME CarrierTypeOK', Few', rate' \in Rates, n' = 0, total' = 0, pass' = 1, pc' = "select"
  PROVE  Passing'
  <1>1. Len(utxos)' \in Nat
    BY DEF CarrierTypeOK
  <1>2. Value(0)' = 0
    BY DEF Value, Coin
  <1>3. Value(n)' = 0
    BY <1>2
  <1> QED
    BY <1>1, <1>3 DEF Passing

LEMMA AddCoinPasses ==
  ASSUME CarrierTypeOK, Few, Passing, AddCoin, pc' = "select"
  PROVE  Passing'
  <1>1. /\ pc = "select" /\ n < Len(utxos) /\ (n = 0 \/ total < Target)
        /\ n' = n + 1 /\ total' = total + utxos[n + 1]
        /\ UNCHANGED <<utxos, rate, amount, goal, extra, pc, pass, fee, tx>>
    BY DEF AddCoin, Ends, args
  <1>2. n \in Nat /\ Len(utxos) \in Nat
    BY DEF CarrierTypeOK
  <1>3. n' <= Len(utxos) /\ total' = Value(n')
    <2>1. n \in 0..(Len(utxos) - 1)
      BY <1>1, <1>2
    <2> QED
      BY <1>1, <1>2, <2>1, ValueIs DEF Passing
  <1>4. ASSUME NEW j \in 1..(n' - 1) PROVE Value(j) < Target
    <2>1. CASE j \in 1..(n - 1)
      BY <2>1 DEF Passing
    <2>2. CASE j = n
      BY <1>1, <1>2, <2>2 DEF Passing
    <2>3. j \in 1..(n - 1) \/ j = n
      BY <1>1, <1>2
    <2> QED
      BY <2>1, <2>2, <2>3
  <1>5. /\ Target' = Target /\ Want' = Want /\ \A k : Value(k)' = Value(k) /\ Ample(k)' = Ample(k)
    BY <1>1 DEF Target, Need, Want, Value, Coin, Ample, Floor
  <1>6. pass > 1 => Minimal(tx)' /\ fee' = Want' /\ Level(pass, tx)'
    BY <1>1, <1>5
    DEF Passing, Minimal, Level, Nearly, Settled, Drawn, Shortest
  <1> QED
    BY <1>1, <1>3, <1>4, <1>5, <1>6 DEF Passing

LEMMA SignPasses ==
  ASSUME CarrierTypeOK, CarrierTypeOK', Few, Modest, Passing, Sign
  PROVE  Passing'
  <1>1. PICK slack \in 0..Longer(n) :
          tx' = [n |-> n, total |-> total,
                 change |-> Outputs.change, paid |-> Outputs.paid,
                 vsize |-> Base + In * n + slack
                           + IF Outputs.change > 0 THEN Change ELSE 0]
    BY DEF Sign
  <1>2. /\ pc = "select" /\ pc' = "sign" /\ total >= Need /\ Selected
        /\ (n = Len(utxos) \/ (n > 0 /\ total >= Target))
        /\ UNCHANGED <<utxos, rate, amount, goal, extra, pass, fee, n, total>>
    BY DEF Sign, Selected, args
  <1> DEFINE t == tx'
  <1>3. t \in Signable /\ t.n = n /\ t.change = Outputs.change
    BY <1>1 DEF CarrierTypeOK, Signable
  <1>4. slack \in 0..Slack
    <2>1. n \in Nat /\ n <= 4 /\ Slack \in Nat
      BY CarrierConstants DEF CarrierTypeOK, Passing, Few
    <2>2. n * Slack <= 4 * Slack /\ n * Slack \in Nat
      BY <2>1, Monotone
    <2> DEFINE s == Slack * n
    <2>3. s <= 4 * Slack /\ s \in Nat
      BY <2>1, <2>2
    <2> HIDE DEF s
    <2>4. (s + 3) \div 4 <= Slack
      BY <2>1, <2>3
    <2>5. Longer(n) <= Slack /\ Longer(n) \in Nat
      BY <2>1, <2>4, LongerIsNat DEF Longer, s
    <2> QED
      BY <2>1, <2>5
  <1>5. Drawn(t) \in 0..Slack
    <2> DEFINE more == IF Outputs.change > 0 THEN Change ELSE 0  i == In * n
    <2>1. t.vsize = Base + i + slack + more /\ Shortest(t) = Base + i + more
      BY <1>1, <1>3 DEF Shortest
    <2>2. Base \in Nat /\ i \in Nat /\ more \in Nat
      <3>1. In \in Nat /\ n \in Nat /\ Change \in Nat /\ Base \in Nat
        BY CarrierConstants DEF CarrierTypeOK
      <3> QED
        BY <3>1
    <2> HIDE DEF i, more, t
    <2>3. Drawn(t) = slack
      BY <1>4, <2>1, <2>2, CarrierConstants DEF Drawn
    <2> QED
      BY <1>4, <2>3
  <1>6. /\ extra \in Nat /\ fee \in Nat /\ total \in Nat /\ Dust \in Nat /\ Dust > 0
        /\ n \in Nat /\ Len(utxos) \in Nat /\ n <= Len(utxos) /\ total = Value(n)
    BY CarrierConstants DEF CarrierTypeOK, Passing
  <1>7. Minimal(t)
    <2>1. n = Len(utxos) \/ (n > 0 /\ Outputs.change > 0)
      BY <1>2, <1>6 DEF Outputs, Target, Need
    <2>2. Outputs.change = 0 => total < Target
      BY <1>2, <1>6 DEF Outputs, Target, Need
    <2> HIDE DEF t
    <2> QED
      BY <1>3, <1>5, <1>6, <2>1, <2>2 DEF Minimal, Passing
  <1>8. ASSUME fee < t.vsize * rate PROVE Level(pass + 1, t)
    <2> HIDE DEF t
    <2>1. pass \in Nat /\ pass >= 1
      BY DEF CarrierTypeOK, Passing
    <2>2. CASE pass = 1
      <3>1. Drawn(t) \in Nat /\ Slack \in Nat
        BY <1>5, CarrierConstants
      <3> QED
        BY <2>2, <3>1 DEF Level
    <2>3. CASE pass > 1
      <3>1. Minimal(tx) /\ fee = Want /\ Level(pass, tx) /\ rate \in Rates
        BY <1>2, <2>3 DEF Passing
      <3>2. tx.n <= n /\ tx.n \in Nat
        BY <1>2, <1>6, <3>1, NoFewerCoins DEF CarrierTypeOK
      <3>3. CASE n = tx.n
        BY <1>2, <1>3, <1>5, <1>6, <1>8, <2>3, <3>1, <3>3, SameCoins
      <3>4. CASE tx.n < n
        <4>1. (\A j \in 1..(n - 1) : Value(j) < Target) /\ (\A r \in Rates : Slack * r <= Dust)
          BY DEF Passing, Modest
        <4> QED
          BY <1>2, <1>3, <1>5, <1>6, <2>3, <3>1, <3>4, <4>1, MoreCoins
      <3> QED
        BY <1>6, <3>2, <3>3, <3>4
    <2> QED
      BY <2>1, <2>2, <2>3
  <1>9. /\ Target' = Target /\ Want' = t.vsize * rate
        /\ \A k : Value(k)' = Value(k) /\ Ample(k)' = Ample(k)
    BY <1>2 DEF Target, Need, Want, Value, Coin, Ample, Floor
  <1>10. Minimal(tx)' /\ (fee' < Want' => Level(pass + 1, tx)')
    <2>1. Minimal(tx)'
      BY <1>2, <1>7, <1>9 DEF Minimal, Shortest
    <2>2. ASSUME fee' < Want' PROVE Level(pass + 1, tx)'
      BY <1>2, <1>8, <1>9, <2>2 DEF Level, Nearly, Settled, Drawn, Shortest
    <2> QED
      BY <2>1, <2>2
  <1> QED
    BY <1>2, <1>3, <1>9, <1>10 DEF Passing

LEMMA RetryPasses ==
  ASSUME CarrierTypeOK, Few, Passing, Retry
  PROVE  Passing'
  <1>1. /\ pc = "sign" /\ pc' = "select" /\ fee' = Want /\ n' = 0 /\ total' = 0
        /\ ~(fee >= Want) /\ pass' = pass + 1
        /\ UNCHANGED <<utxos, rate, amount, goal, extra, tx>>
    BY DEF Retry, NextFee, Covers, args
  <1>2. /\ Want \in Nat /\ fee \in Nat /\ fee < Want /\ extra \in Nat /\ Dust \in Nat
        /\ Len(utxos) \in Nat /\ tx.n \in Nat /\ pass \in Nat
    BY <1>1, WantIsNat, CarrierConstants, SMTT(30) DEF CarrierTypeOK
  <1>3. Minimal(tx) /\ Level(pass + 1, tx)
    BY <1>1, <1>2 DEF Passing
  <1>4. /\ Want' = Want /\ Target < Target' /\ Target \in Nat /\ Target' \in Nat
        /\ \A k : Value(k)' = Value(k) /\ Ample(k)' = Ample(k)
    BY <1>1, <1>2 DEF Target, Need, Want, Value, Coin, Ample, Floor
  <1>5. \A k \in 0..Len(utxos) : Value(k) \in Nat
    BY ValueIs
  <1>6. Minimal(tx)'
    <2>1. tx.n \in 0..Len(utxos) /\ Value(tx.n) \in Nat
      BY <1>2, <1>3, <1>5 DEF Minimal
    <2>2. tx.change = 0 => Value(tx.n) < Target'
      BY <1>3, <1>4, <2>1 DEF Minimal
    <2>3. ASSUME NEW j \in 1..(tx.n - 1) PROVE Value(j) < Target'
      <3>1. j \in 0..Len(utxos) /\ Value(j) < Target
        BY <1>2, <1>3, <2>1 DEF Minimal
      <3> QED
        BY <1>4, <1>5, <3>1
    <2> QED
      BY <1>1, <1>3, <1>4, <2>2, <2>3 DEF Minimal, Shortest
  <1>7. Level(pass, tx)'
    BY <1>1, <1>3, <1>4 DEF Level, Nearly, Settled, Drawn, Shortest
  <1>8. Value(0) = 0
    BY ValueIs
  <1> QED
    BY <1>1, <1>2, <1>4, <1>6, <1>7, <1>8 DEF Passing

LEMMA StepConverges ==
  ASSUME Modest, CarrierTypeOK, CarrierTypeOK', Converging, [CarrierNext]_carrier
  PROVE  Converging'
  <1>1. CASE UNCHANGED carrier
    BY <1>1
    DEF carrier, Converging, Few, Passing, Minimal, Level, Nearly, Settled, Drawn, Shortest,
        Target, Need, Want, Value, Coin, Ample, Floor
  <1>2. ASSUME NEW us \in Coins, NEW r \in Rates, NEW a \in Amounts,
               NEW g \in {"carrier", "payout"}, Call(us, r, a, g)
        PROVE  Converging'
    <2>1. rate' \in Rates /\ n' = 0 /\ total' = 0 /\ pass' = 1 /\ pc' = "select"
      BY <1>2 DEF Call, Start
    <2> QED
      BY <2>1, StartPasses DEF Converging
  <1>3. ASSUME ~(\E us \in Coins, r \in Rates, a \in Amounts, g \in {"carrier", "payout"} :
                   Call(us, r, a, g)), CarrierNext
        PROVE  Converging'
    <2> SUFFICES ASSUME Few'
                 PROVE  /\ pc' \in {"select", "sign"} => Passing'
                        /\ pc' # "FeeDidNotConverge"
      BY DEF Converging
    <2>1. UNCHANGED <<utxos, rate>>
      BY <1>3
      DEF CarrierNext, NeedOverflows, AddCoin, Insufficient, Sign, WantOverflows, Retry,
          GiveUp, ReturnTx, PayoutBelowFee, BuildAgain, Ends, args
    <2>2. Few
      BY <2>1 DEF Few
    <2>3. pc \in {"select", "sign"} /\ Passing
      BY <1>3, <2>2
      DEF CarrierNext, NeedOverflows, AddCoin, Insufficient, Sign, WantOverflows, Retry,
          GiveUp, ReturnTx, PayoutBelowFee, BuildAgain, Converging, Selected, Built
    <2>4. CASE NeedOverflows \/ Insufficient \/ WantOverflows \/ ReturnTx \/ PayoutBelowFee
      BY <2>4 DEF NeedOverflows, Insufficient, WantOverflows, ReturnTx, PayoutBelowFee, Ends
    <2>5. CASE AddCoin
      <3>1. pc' \in {"select", "Overflow"}
        BY <2>5 DEF AddCoin, Ends
      <3> QED
        BY <2>2, <2>3, <2>5, <3>1, AddCoinPasses
    <2>6. CASE Sign
      BY <2>2, <2>3, <2>6, SignPasses DEF Sign
    <2>7. CASE Retry
      BY <2>2, <2>3, <2>7, RetryPasses DEF Retry
    <2>8. CASE GiveUp
      <3>1. pc = "sign" /\ ~(fee >= Want) /\ pass = Passes
        BY <2>8 DEF GiveUp, Covers
      <3>2. fee \in Nat /\ Want \in Nat /\ pass \in Nat
        BY WantIsNat DEF CarrierTypeOK
      <3>3. Level(pass + 1, tx)
        BY <2>3, <3>1, <3>2 DEF Passing
      <3>4. Drawn(tx) \in 0..Slack /\ Slack \in Nat
        BY <2>3, <3>1, CarrierConstants DEF Passing, Minimal
      <3> QED
        BY <3>1, <3>2, <3>3, <3>4 DEF Level, Modest
    <2>9. CASE BuildAgain
      <3>1. n' = 0 /\ total' = 0 /\ pass' = 1 /\ pc' = "select" /\ rate' \in Rates
        BY <2>1, <2>3, <2>9 DEF BuildAgain, Start, Passing
      <3> QED
        BY <3>1, StartPasses
    <2> QED
      BY <1>3, <2>4, <2>5, <2>6, <2>7, <2>8, <2>9 DEF CarrierNext
  <1> QED
    BY <1>1, <1>2, <1>3

(* "One more pass is enough in practice" (build_carrier): of four coins,     *)
(* each worth twice what it costs to spend and dust, a carrier is built      *)
(* whatever signatures it draws, if it has twice as many passes as the       *)
(* bytes their lengths vary by, and four.  The code's six are enough for     *)
(* lengths that vary by one byte, and for no more: a signature is 71 or 72   *)
(* bytes long, and one in about 256 is shorter.                            *)
THEOREM FourCoinsConverge == ASSUME Modest PROVE CarrierSpec => []Converges
  <1>1. CarrierInit => Converging
    BY DEF CarrierInit, Converging
  <1>2. CarrierTypeOK /\ CarrierTypeOK' /\ Converging /\ [CarrierNext]_carrier => Converging'
    BY StepConverges
  <1>3. CarrierTypeOK /\ Converging => Converges
    <2> SUFFICES ASSUME CarrierTypeOK, Converging, pc = "FeeDidNotConverge",
                        \A k \in DOMAIN utxos : utxos[k] >= Dust + 2 * In * rate
                 PROVE  Len(utxos) > 4
      BY DEF Converges
    <2>1. ~Few
      BY DEF Converging
    <2>2. Len(utxos) \in Nat
      BY DEF CarrierTypeOK
    <2> QED
      BY <2>1, <2>2 DEF Few
  <1>4. Carriers => CarrierTypeOK
    BY DEF Carriers
  <1> QED
    BY <1>1, <1>2, <1>3, <1>4, CarriersInvariant, PTL DEF CarrierSpec
=============================================================================

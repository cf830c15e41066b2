------------------------------ MODULE Envelopes ------------------------------
(***************************************************************************)
(* The bytes of envelopes: to_bytes, and parse reading them field by field.  *)
(*                                                                          *)
(* A byte has ByteValues values, the highest three of which start a CompactSize    *)
(* of more than one byte.  A field of fixed length is one byte; nullifiers,  *)
(* ciphertexts and r_seed have one encoding, one point has two, as with      *)
(* both signs of x = 0.                                                     *)
(***************************************************************************)
EXTENDS Integers, Sequences

CONSTANTS
  ByteValues,         \* 256
  NInputs, NOutputs,   \* N_IN, N_OUT
  ScriptLens,   \* bound: lengths of payout scripts
  Values,       \* bound: bytes of a script, and values of the other fields
  Magic, Version, KindTransfer, KindMint

AmountLen == 1

(* What a byte counts for, by its place in a size.                         *)
Place == <<1, ByteValues, ByteValues * ByteValues, ByteValues * ByteValues * ByteValues>>
(* The largest size that four bytes hold.                                   *)
MaxSize == ByteValues * Place[4] - 1

ASSUME EnvelopeConstants ==
  /\ ByteValues \in Nat /\ ByteValues >= 6
  /\ {Magic, Version, KindTransfer, KindMint} \subseteq 0..(ByteValues - 1)
  /\ KindTransfer # KindMint
  /\ {NInputs, NOutputs} \subseteq 0..(ByteValues - 4)
  /\ ScriptLens \subseteq 0..(MaxSize - AmountLen)
  /\ Values \subseteq 0..(ByteValues - 1)

VARIABLES
  bytes,    \* what is parsed
  written,  \* history: the envelope whose to_bytes they are, or NoEnvelope
  pos,      \* bytes read
  reading,  \* the field that is next, "end" when parse has returned
  env,      \* the envelope so far
  why       \* "parsing", the error, "ok" or "none"

parse == <<bytes, written, pos, reading, env, why>>

-----------------------------------------------------------------------------
(* The envelopes.                                                          *)

NoEnvelope ==
  [kind |-> "none", h_anchor |-> 0, nf |-> 0, pk_eph |-> 0, ct |-> 0, ct_out |-> 0,
   payout |-> FALSE, amount |-> 0, script |-> <<>>, proof |-> 0,
   d |-> 0, pk_d |-> 0, r_seed |-> 0]

Points == {0, 2}
PointOf == [b \in 0..2 |-> IF b = 1 THEN 0 ELSE b]

Zeros(n) == [k \in 1..n |-> 0]
Elements == Values \ {ByteValues - 1}
Scripts == UNION {[1..n -> Values] : n \in ScriptLens}

(* Only a payout has an amount and a script, and no address has an empty one. *)
Transfers ==
  {e \in [kind : {"transfer"}, h_anchor : Values, nf : Elements, pk_eph : Points,
          ct : Elements, ct_out : Values, payout : BOOLEAN, amount : Values,
          script : Scripts \cup {<<>>}, proof : Values, d : {0}, pk_d : {0}, r_seed : {0}] :
     IF e.payout THEN e.script # <<>> ELSE e.amount = 0 /\ e.script = <<>>}
Mint(d, p, r) == [NoEnvelope EXCEPT !.kind = "mint", !.d = d, !.pk_d = p, !.r_seed = r]
Mints == {Mint(d, p, r) : d \in Values \cup {ByteValues - 1}, p \in Points, r \in Elements}
Written == Transfers \cup Mints

-----------------------------------------------------------------------------
(* to_bytes.                                                               *)

Le(n, width) == [i \in 1..width |-> (n \div Place[i]) % ByteValues]
Wide(n) == <<ByteValues - 3>> \o Le(n, 2)
Widest(n) == <<ByteValues - 2>> \o Le(n, 4)

(* Mistaken variant: one more value in one byte.                           *)
CompactSizeLate(n) ==
  IF n <= ByteValues - 3 THEN <<n>> ELSE IF n < Place[3] THEN Wide(n) ELSE Widest(n)
CompactSize(n) ==
  IF n < ByteValues - 3 THEN <<n>> ELSE IF n < Place[3] THEN Wide(n) ELSE Widest(n)

(* as: how sizes are written, "least" by to_bytes.                          *)
SizeBytes(n, as) ==
  CASE as = "least" -> CompactSize(n) [] as = "wide" -> Wide(n) [] as = "widest" -> Widest(n)

BytesOf(e, as) ==
  IF e.kind = "mint"
  THEN <<Magic, Version, KindMint, 0, e.d, e.pk_d, e.r_seed>>
  ELSE <<Magic, Version, KindTransfer, 0, e.h_anchor>>
       \o SizeBytes(NInputs, as) \o SizeBytes(NOutputs, as) \o <<e.nf, e.pk_eph, e.ct, e.ct_out>>
       \o (IF e.payout
           THEN SizeBytes(AmountLen + Len(e.script), as) \o <<e.amount>> \o e.script
           ELSE <<0>>)
       \o <<e.proof>>

ToBytes(e) == BytesOf(e, "least")

-----------------------------------------------------------------------------
(* parse.                                                                  *)

(* What follows a field.                                                   *)
NextField(f) ==
  CASE f = "h_anchor" -> "in_count" [] f = "in_count" -> "out_count"
    [] f = "out_count" -> "nf"      [] f = "nf" -> "pk_eph"
    [] f = "pk_eph" -> "ct"         [] f = "ct" -> "ct_out"
    [] f = "ct_out" -> "plen"       [] f = "amount" -> "script"
    [] f = "script" -> "proof"      [] f = "d" -> "pk_d"
    [] f = "pk_d" -> "r_seed"       [] OTHER -> "last"

ReturnWith(e) ==
  /\ why' = e /\ reading' = "end"
  /\ UNCHANGED <<bytes, written, pos, env>>

HeaderLen == 4
ReadHeader ==
  /\ reading = "header"
  /\ IF Len(bytes) < HeaderLen \/ bytes[1] # Magic THEN ReturnWith("none")
     ELSE IF bytes[2] # Version THEN ReturnWith("UnknownVersion")
     ELSE IF bytes[4] # 0 THEN ReturnWith("ReservedByteSet")
     ELSE IF bytes[3] \notin {KindTransfer, KindMint} THEN ReturnWith("UnknownKind")
     ELSE /\ pos' = HeaderLen
          /\ reading' = IF bytes[3] = KindMint THEN "d" ELSE "h_anchor"
          /\ env' = [env EXCEPT !.kind = IF bytes[3] = KindMint THEN "mint" ELSE "transfer"]
          /\ UNCHANGED <<bytes, written, why>>

Truncated(n) == pos + n > Len(bytes)

Decodes(f, b) ==
  CASE f \in {"nf", "ct", "r_seed"} -> b # ByteValues - 1
    [] f \in {"pk_eph", "pk_d"} -> b \in DOMAIN PointOf
    [] OTHER -> TRUE

Decode(f, b) == IF f \in {"pk_eph", "pk_d"} THEN PointOf[b] ELSE b

Fixed ==
  {"h_anchor", "nf", "pk_eph", "ct", "ct_out", "amount", "proof", "d", "pk_d", "r_seed"}

ReadFixed ==
  /\ reading \in Fixed
  /\ IF Truncated(1) THEN ReturnWith("Truncated")
     ELSE IF ~Decodes(reading, bytes[pos + 1]) THEN ReturnWith(reading)
     ELSE /\ env' = [env EXCEPT ![reading] = Decode(reading, bytes[pos + 1])]
          /\ pos' = pos + 1 /\ reading' = NextField(reading)
          /\ UNCHANGED <<bytes, written, why>>

(* compact_size: what it reads, or the error.                              *)
Digits(width) ==
  LET digit(i) == bytes[pos + 1 + i] * Place[i]
  IN  IF width = 0 THEN bytes[pos + 1]
      ELSE IF width = 2 THEN digit(1) + digit(2)
      ELSE digit(1) + digit(2) + digit(3) + digit(4)

Least(width) ==
  CASE width = 0 -> 0 [] width = 2 -> ByteValues - 3 [] width = 4 -> Place[3]

(* Mistaken variant: the largest value of the next smaller width, too.     *)
MinimalAlmost(n, width) == n + 1 >= Least(width)
Minimal(n, width) == n >= Least(width)

WidthOf(marker) ==
  CASE marker = ByteValues - 3 -> 2 [] marker = ByteValues - 2 -> 4 [] OTHER -> 0

Size ==
  IF Truncated(1) THEN [error |-> "Truncated"]
  ELSE LET width == WidthOf(bytes[pos + 1]) IN
       IF bytes[pos + 1] = ByteValues - 1 THEN [error |-> "NonMinimalCount"]
       ELSE IF Truncated(1 + width) THEN [error |-> "Truncated"]
       ELSE IF ~Minimal(Digits(width), width) THEN [error |-> "NonMinimalCount"]
       ELSE [error |-> "ok", n |-> Digits(width), took |-> 1 + width]

ReadCount ==
  /\ reading \in {"in_count", "out_count"}
  /\ IF Size.error # "ok" THEN ReturnWith(Size.error)
     ELSE IF Size.n # (IF reading = "in_count" THEN NInputs ELSE NOutputs)
     THEN ReturnWith(reading)
     ELSE /\ pos' = pos + Size.took /\ reading' = NextField(reading)
          /\ UNCHANGED <<bytes, written, env, why>>

(* The length of the script is kept as that of the script to be read.       *)
ReadPlen ==
  /\ reading = "plen"
  /\ IF Size.error # "ok" THEN ReturnWith(Size.error)
     ELSE IF Size.n # 0 /\ Size.n <= AmountLen THEN ReturnWith("PayoutTooShort")
     ELSE /\ pos' = pos + Size.took
          /\ reading' = IF Size.n = 0 THEN "proof" ELSE "amount"
          /\ env' = IF Size.n = 0 THEN env
                    ELSE [env EXCEPT !.payout = TRUE, !.script = Zeros(Size.n - AmountLen)]
          /\ UNCHANGED <<bytes, written, why>>

ReadScript ==
  /\ reading = "script"
  /\ LET length == Len(env.script) IN
       IF Truncated(length) THEN ReturnWith("Truncated")
       ELSE /\ env' = [env EXCEPT !.script = SubSeq(bytes, pos + 1, pos + length)]
            /\ pos' = pos + length /\ reading' = NextField(reading)
            /\ UNCHANGED <<bytes, written, why>>

Verdict ==
  IF pos # Len(bytes) THEN "TrailingBytes"
  ELSE IF ToBytes(env) # bytes THEN "NonCanonical" ELSE "ok"

Finish == reading = "last" /\ ReturnWith(Verdict)

-----------------------------------------------------------------------------

(* One byte of an envelope's bytes changed, lost, doubled or added, or its  *)
(* sizes written wider than they need to be.                                *)
Changed(b, k, c) == [b EXCEPT ![k] = c]
Without(b, k) == SubSeq(b, 1, k - 1) \o SubSeq(b, k + 1, Len(b))
With(b, k, c) == SubSeq(b, 1, k) \o <<c>> \o SubSeq(b, k + 1, Len(b))
Near(b) ==
  LET someByte == 0..(ByteValues - 1) IN
  {Changed(b, k, c) : k \in DOMAIN b, c \in someByte}
  \cup {Without(b, k) : k \in DOMAIN b}
  \cup {With(b, k, c) : k \in DOMAIN b, c \in someByte}
  \cup {SubSeq(b, 1, k) : k \in 0..Len(b)}

EnvelopeInit ==
  /\ pos = 0 /\ reading = "header" /\ env = NoEnvelope /\ why = "parsing"
  /\ \/ written \in Written /\ bytes = ToBytes(written)
     \/ /\ written = NoEnvelope
        /\ \E e \in Written : bytes \in {BytesOf(e, "wide"), BytesOf(e, "widest")}
                                        \cup Near(ToBytes(e))

EnvelopeNext ==
  ReadHeader \/ ReadFixed \/ ReadCount \/ ReadPlen \/ ReadScript \/ Finish

EnvelopeSpec == EnvelopeInit /\ [][EnvelopeNext]_parse

-----------------------------------------------------------------------------

(* An envelope has one encoding: bytes that are accepted are those to_bytes  *)
(* gives for what was read.  Reading a field refuses every other encoding    *)
(* of it, except the second one of a point, which is left to the comparison. *)
OneEncoding ==
  /\ why = "ok" => ToBytes(env) = bytes
  /\ why = "NonCanonical" =>
       /\ Len(ToBytes(env)) = Len(bytes)
       /\ \A k \in DOMAIN bytes :
            bytes[k] # ToBytes(env)[k] => bytes[k] \in DOMAIN PointOf \ Points

(* What a wallet writes is read back as it was, at every width of a size.   *)
ReadsBack == written # NoEnvelope /\ reading = "end" => why = "ok" /\ env = written
=============================================================================

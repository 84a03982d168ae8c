----------------------------- MODULE NetCodec ------------------------------
(***************************************************************************)
(* How an operator and a DRule write what they send each other as bytes,   *)
(* and read it (src/iendecode, the MarshalBinary and UnmarshalBinary of    *)
(* src/spots and of src/srule/operator/struct_net.go).                     *)
(*                                                                         *)
(* A byte is a number, a string a sequence of bytes.  An integer takes     *)
(* Word bytes instead of 8, an identifier IdLen instead of 40, and each of *)
(* the ten slots of a Status is reduced to the first.                      *)
(***************************************************************************)
EXTENDS Integers, Sequences, SequencesExt, TLC

CONSTANTS Word,         \* bytes of an integer
          IdLen         \* bytes of a transaction id, of a Unid, of a password

Base == 256

----------------------------------------------------------------------------
(* Writing (iendecode, and the MarshalBinary of spots).                    *)

IntToBytes(n) == [i \in 1..Word |-> IF i = Word THEN n % Base ELSE n \div Base ^ (Word - i)]

BoolToBytes(b) == IF b THEN <<1>> ELSE <<0>>

\* What is written with its length before it.
Sized(bytes) == IntToBytes(Len(bytes)) \o bytes

SliceStringToBytes(s) == IntToBytes(Len(s)) \o FlattenSeq([i \in DOMAIN s |-> Sized(s[i])])

\* The keys of a map, in the order in which Go happens to go through it.
Entries(Bytes(_), map) ==
    LET keys == SetToSeq(DOMAIN map)
    IN  FlattenSeq([i \in DOMAIN keys |-> Sized(keys[i]) \o Sized(Bytes(map[keys[i]]))])

Counted(Bytes(_), map) == IntToBytes(Len(SetToSeq(DOMAIN map))) \o Entries(Bytes, map)

StatusToBytes(s) ==
    IntToBytes(s.Int) \o IntToBytes(s.Float) \o IntToBytes(0) \o IntToBytes(s.Complex)
    \o Sized(s.String)

ContextToBytes(c) ==
    Sized(Entries(StatusToBytes, c.Up)) \o Sized(Entries(StatusToBytes, c.Down))

Written(kind, v) ==
    CASE kind = "int"      -> IntToBytes(v)
      [] kind = "complex"  -> IntToBytes(0) \o IntToBytes(v)
      [] kind = "uint8"    -> <<v>>
      [] kind = "bool"     -> BoolToBytes(v)
      [] kind = "string"   -> Sized(v)
      [] kind = "id"       -> v
      [] kind = "strings"  -> Sized(SliceStringToBytes(v))
      [] kind = "status"   -> Sized(StatusToBytes(v))
      [] kind = "context"  -> Sized(ContextToBytes(v))
      [] kind = "friends"  -> Counted(StatusToBytes, v)
      [] kind = "contexts" -> Counted(ContextToBytes, v)
      [] kind = "chars"    -> Counted(SliceStringToBytes, v)

----------------------------------------------------------------------------
(* Reading: a value and the bytes that are left, or a panic.               *)

Panic == [ok |-> FALSE]

Got(value, rest) == [ok |-> TRUE, value |-> value, rest |-> rest]

\* A panic ends all that would follow.
Then(read, Go(_, _)) == IF read.ok THEN Go(read.value, read.rest) ELSE Panic

\* A panic that is recovered: the value stays what it was.
OrElse(read, value) == IF read.ok THEN read.value ELSE value

\* bytes.Buffer.Next gives what there is.
NextBytes(b, n) == SubSeq(b, 1, IF n < Len(b) THEN n ELSE Len(b))

After(b, n) == SubSeq(b, n + 1, Len(b))

Number(b) == FoldLeft(LAMBDA n, byte : n * Base + byte, 0, SubSeq(b, 1, Word))

BytesToInt(b) == IF Len(b) < Word THEN Panic ELSE Got(Number(b), After(b, Word))

BytesToUint8(b) == IF b = << >> THEN Panic ELSE Got(b[1], Tail(b))

BytesToBool(b) == IF b = << >> THEN Panic ELSE Got(b[1] = 1, Tail(b))

\* What has its length before it, made into a value.
Within(Value(_), b) ==
    Then(BytesToInt(b),
         LAMBDA n, rest : Then(Value(NextBytes(rest, n)),
                               LAMBDA value, unread : Got(value, After(rest, n))))

AllOf(b) == Got(b, << >>)

String(b) == Within(AllOf, b)

\* As many reads as there are, each of which goes on with what the last has left.
Times(n, One(_, _), b) ==
    FoldLeft(LAMBDA r, i : Then(r, One), Got(<< >>, b), [i \in 1..n |-> i])

OneString(s, b) == Then(String(b), LAMBDA string, rest : Got(Append(s, string), rest))

BytesToSliceString(b) == Then(BytesToInt(b), LAMBDA n, rest : Times(n, OneString, rest))

\* One key and its value go into the map.
Entry(Value(_), map, b) ==
    Then(String(b),
         LAMBDA key, rest : Then(Within(Value, rest),
                                 LAMBDA value, left : Got((key :> value) @@ map, left)))

\* A Status that is cut short has what came before; its panic does not leave it.
BytesToStatus(b) ==
    LET At(n) == IF Len(b) >= n * Word THEN Number(After(b, (n - 1) * Word)) ELSE 0
    IN  Got([Int |-> At(1), Float |-> At(2), Complex |-> At(4),
             String |-> OrElse(String(After(b, 4 * Word)), << >>)], << >>)

OneStatusOf(map, b) == IF b = << >> THEN Got(map, b) ELSE Entry(BytesToStatus, map, b)

\* Until nothing is left.
BytesToMap(b) == Times(Len(b), OneStatusOf, b)

\* So has a Context.
BytesToContext(b) ==
    LET Sides(up, rest) == Got([Up |-> up, Down |-> OrElse(Within(BytesToMap, rest), << >>)], << >>)
    IN  Got(OrElse(Then(Within(BytesToMap, b), Sides), [Up |-> << >>, Down |-> << >>]), << >>)

Map(One(_, _), b) == Then(BytesToInt(b), LAMBDA n, rest : Times(n, One, rest))

Friend(map, b) == Entry(BytesToStatus, map, b)

Context(map, b) == Entry(BytesToContext, map, b)

\* A map that has not been made takes no entry.
NilMap(map, b) == Panic

Read(kind, b) ==
    CASE kind = "int"      -> BytesToInt(b)
      [] kind = "complex"  -> BytesToInt(After(b, Word))
      [] kind = "uint8"    -> BytesToUint8(b)
      [] kind = "bool"     -> BytesToBool(b)
      [] kind = "string"   -> String(b)
      [] kind = "id"       -> Got(NextBytes(b, IdLen), After(b, IdLen))
      [] kind = "strings"  -> Within(BytesToSliceString, b)
      [] kind = "status"   -> Within(BytesToStatus, b)
      [] kind = "context"  -> Within(BytesToContext, b)
      [] kind = "friends"  -> Map(Friend, b)
      [] kind = "contexts" -> Map(Context, b)
      [] kind = "nil map"  -> Map(NilMap, b)

----------------------------------------------------------------------------
(* The steps of a method: a field, as what, and on which condition.        *)

As(kind, field) == [field |-> field, kind |-> kind, when |-> << >>]

When(condition, step) == [step EXCEPT !.when = condition]

Applies(step, message) == \A f \in DOMAIN step.when : message[f] \in step.when[f]

Marshal(steps, message) ==
    FlattenSeq([i \in DOMAIN steps |->
                  IF Applies(steps[i], message)
                  THEN Written(steps[i].kind, message[steps[i].field]) ELSE << >>])

\* A panic is recovered, and leaves what has been read so far; and no error, because
\* the err that the deferred function sets is another.
Unmarshal(steps, zero, bytes) ==
    LET Set(r, step, v) == IF v.ok THEN Got([r.value EXCEPT ![step.field] = v.value], v.rest)
                           ELSE [r EXCEPT !.ok = FALSE]
    IN  FoldLeft(LAMBDA r, step : IF ~r.ok \/ ~Applies(step, r.value) THEN r
                                  ELSE Set(r, step, Read(step.kind, r.rest)),
                 Got(zero, bytes), steps)
=============================================================================

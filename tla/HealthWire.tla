------------------------------ MODULE HealthWire ------------------------------
(***************************************************************************)
(* A health record on its way from a C++ publisher to a Python reader, or  *)
(* back: Encode and Decode of sensor_health_wire.hpp, encode and decode of *)
(* hakoniwa_sensor_health.                                                 *)
(*                                                                         *)
(* The header is a record of its fields, in the order both languages write *)
(* them.  That there is a whole header, with the magic, the version and    *)
(* nothing reserved, is one Boolean: a frame that fails in one of these is *)
(* not looked at any further.  sequence stands for the three counters.     *)
(* The texts are bytes: both languages have to take the same ones for      *)
(* UTF-8.                                                                  *)
(***************************************************************************)
EXTENDS Integers, Sequences

CONSTANTS
  HeaderSize, MaxText,
  HalfTime,  \* 2^63
  MaxCount,  \* the largest count
  Flags,     \* 2^7: the status bits that are defined
  Healths,   \* what publishers send
  Headers,   \* headers that arrive, and
  Bodies,    \* the texts behind them
  Refused    \* what a refusing codec gives; no record, no frame

ASSUME WireAssumption ==
  /\ HeaderSize \in Nat /\ MaxText \in Nat /\ HalfTime \in Nat \ {0} /\ MaxCount \in Nat
  /\ Flags \in Nat

Byte == 0..255
Text == Seq(Byte)

Count == 0..MaxCount

\* A record whose texts are bytes, with the numbers a Python field may hold; a frame.
HealthRecord ==
  [sequence : Int, source : Int, scheduled : Int, publish : Int, status : Int,
   sensor_id : Text, profile_id : Text, calibration_id : Text]
HealthFrame ==
  [ours : BOOLEAN, size : Int, sequence : Count, source : Nat, scheduled : Nat, publish : Nat,
   status : Nat, lengths : Nat \X Nat \X Nat, body : Text]

\* The numbers of a header that arrives are without a sign and as wide as its
\* fields; amiss is what its lengths have too much or too little for the body.
ASSUME WireTypes ==
  /\ Healths \subseteq HealthRecord /\ Bodies \subseteq Text
  /\ Refused \notin HealthRecord /\ Refused \notin HealthFrame
  /\ \A f \in Headers :
       /\ f.ours \in BOOLEAN /\ f.excess \in Int /\ f.amiss \in Int
       /\ f.sequence \in Count /\ {f.status, f.rest[1], f.rest[2]} \subseteq Nat
       /\ {f.source, f.scheduled, f.publish} \subseteq 0..(2 * HalfTime - 1)

VARIABLES
  sent,  \* the record of the frame that was published, or Refused
  wire   \* the frame in the channel, or Refused

wireVars == <<sent, wire>>
-----------------------------------------------------------------------------
(***************************************************************************)
(* Texts                                                                   *)
(***************************************************************************)
\* The continuation bytes the first byte announces; 0 is none.
Follow(c) == CASE c \in 194..223 -> 1 [] c \in 224..239 -> 2 [] c \in 240..244 -> 3 [] OTHER -> 0

\* The code point of the character at i.
Code(text, i, n) ==
  LET code[j \in 0..n] == IF j = 0 THEN text[i] % 2^(6 - n) ELSE 64 * code[j - 1] + (text[i + j] % 64)
  IN code[n]

\* A variant that does not ask for the shortest form.
AllowedLong(code, n) == code <= 1114111 /\ code \notin 55296..57343

\* Neither overlong nor a surrogate nor beyond U+10FFFF.
Allowed(code, n) ==
  /\ ~(n = 1 /\ code < 128) /\ ~(n = 2 /\ code < 2048) /\ ~(n = 3 /\ code < 65536)
  /\ code <= 1114111 /\ code \notin 55296..57343

CheckText(text) ==
  LET good[i \in 1..(Len(text) + 1)] ==
        IF i > Len(text) THEN TRUE
        ELSE IF text[i] < 128 THEN good[i + 1]
        ELSE LET n == Follow(text[i])
             IN /\ n # 0 /\ i + n <= Len(text)
                /\ \A j \in 1..n : text[i + j] \in 128..191
                /\ Allowed(Code(text, i, n), n)
                /\ good[i + n + 1]
  IN Len(text) <= MaxText /\ (\A i \in DOMAIN text : text[i] # 0) /\ good[1]

\* bytes.decode of Python: the well-formed byte sequences of the standard.
Rest == 128..191
Characters ==
  { <<0..127>>, <<194..223, Rest>>, <<{224}, 160..191, Rest>>, <<225..236, Rest, Rest>>,
    <<{237}, 128..159, Rest>>, <<238..239, Rest, Rest>>, <<{240}, 144..191, Rest, Rest>>,
    <<241..243, Rest, Rest, Rest>>, <<{244}, 128..143, Rest, Rest>> }

WellFormed(text) ==
  LET good[i \in 1..(Len(text) + 1)] ==
        \/ i > Len(text)
        \/ \E c \in Characters :
             /\ i + Len(c) <= Len(text) + 1
             /\ \A k \in DOMAIN c : text[i + k - 1] \in c[k]
             /\ good[i + Len(c)]
  IN good[1]
-----------------------------------------------------------------------------
(***************************************************************************)
(* C++                                                                     *)
(***************************************************************************)
Texts(h) == <<h.sensor_id, h.profile_id, h.calibration_id>>
Total(lengths) == HeaderSize + lengths[1] + lengths[2] + lengths[3]
InFrame(body) == HeaderSize + Len(body)

CppValidate(h) ==
  /\ \A i \in 1..3 : CheckText(Texts(h)[i])
  /\ h.sensor_id # << >>
  /\ 0 <= h.source /\ h.source <= h.scheduled /\ h.source <= h.publish
  /\ h.status \in 0..(Flags - 1)

\* A frame is a header and its body.
Frame(h) ==
  LET texts   == Texts(h)
      lengths == <<Len(texts[1]), Len(texts[2]), Len(texts[3])>>
  IN [ours |-> TRUE, size |-> Total(lengths), sequence |-> h.sequence, source |-> h.source,
      scheduled |-> h.scheduled, publish |-> h.publish, status |-> h.status,
      lengths |-> lengths, body |-> texts[1] \o texts[2] \o texts[3]]

CppEncode(h) == IF CppValidate(h) THEN Frame(h) ELSE Refused

\* The record in a frame, its texts cut where the lengths say.
Record(f) ==
  LET first  == f.lengths[1]
      second == first + f.lengths[2]
  IN [sequence |-> f.sequence, source |-> f.source, scheduled |-> f.scheduled,
      publish |-> f.publish, status |-> f.status,
      sensor_id |-> SubSeq(f.body, 1, first),
      profile_id |-> SubSeq(f.body, first + 1, second),
      calibration_id |-> SubSeq(f.body, second + 1, second + f.lengths[3])]

\* Times arrive as 64 bits without a sign; those of negative times are refused.
CppDecode(f) ==
  IF /\ InFrame(f.body) <= HeaderSize + 3 * MaxText
     /\ f.ours /\ f.size = InFrame(f.body)
     /\ f.source < HalfTime /\ f.scheduled < HalfTime /\ f.publish < HalfTime
     /\ Total(f.lengths) = InFrame(f.body)
     /\ CppValidate(Record(f))
  THEN Record(f) ELSE Refused
-----------------------------------------------------------------------------
(***************************************************************************)
(* Python                                                                  *)
(***************************************************************************)
\* _validate; its integers have any size, and its texts are always well-formed.
PyValidate(h) ==
  /\ h.sensor_id # << >>
  /\ \A i \in 1..3 : /\ Len(Texts(h)[i]) <= MaxText
                     /\ \A k \in DOMAIN Texts(h)[i] : Texts(h)[i][k] # 0
  /\ h.sequence \in Count /\ h.status \in 0..(Flags - 1)
  /\ \A t \in {h.source, h.scheduled, h.publish} : 0 <= t /\ t < HalfTime
  /\ h.source <= h.scheduled /\ h.source <= h.publish

PyEncode(h) ==
  IF PyValidate(h) /\ \A i \in 1..3 : WellFormed(Texts(h)[i]) THEN Frame(h) ELSE Refused

\* decode: times are unpacked with their sign.
Signed(n) == IF n < HalfTime THEN n ELSE n - 2 * HalfTime
PyDecode(f) ==
  LET h == [Record(f) EXCEPT !.source = Signed(@), !.scheduled = Signed(@), !.publish = Signed(@)]
  IN IF /\ InFrame(f.body) <= HeaderSize + 3 * MaxText
        /\ f.ours /\ f.size = InFrame(f.body) /\ Total(f.lengths) = f.size
        /\ \A i \in 1..3 : WellFormed(Texts(h)[i])
        /\ PyValidate(h)
     THEN h ELSE Refused
-----------------------------------------------------------------------------
\* SensorHealthPduAdapter::send, of the numbers a C++ record can hold, or Python's
\* encode, of any: a refused record leaves the channel as it was.
Int64 == (-HalfTime)..(HalfTime - 1)
FitsCpp(h) ==
  {h.source, h.scheduled, h.publish} \subseteq Int64 /\ h.sequence \in Count /\ h.status \in Nat
Publish(h, f) == f # Refused /\ sent' = h /\ wire' = f

Send ==
  /\ wire = Refused
  /\ \E h \in Healths :
    \/ FitsCpp(h) /\ Publish(h, CppEncode(h))
    \/ Publish(h, PyEncode(h))

\* Anything else that may be in the channel: a header whose size and lengths are
\* those of the body, or larger or smaller.
Arrive ==
  /\ wire = Refused
  /\ \E f \in Headers, b \in Bodies :
       /\ f.rest[1] + f.rest[2] <= Len(b) + f.amiss
       /\ wire' = [ours |-> f.ours, size |-> InFrame(b) + f.excess, sequence |-> f.sequence,
                   source |-> f.source, scheduled |-> f.scheduled, publish |-> f.publish,
                   status |-> f.status, body |-> b,
                   lengths |-> <<Len(b) + f.amiss - f.rest[1] - f.rest[2], f.rest[1], f.rest[2]>>]
  /\ sent' = Refused

\* The channel is free for the next: neither codec remembers anything.
Read ==
  /\ wire # Refused
  /\ wire' = Refused /\ sent' = Refused

WireInit == sent = Refused /\ wire = Refused
WireNext == Send \/ Arrive \/ Read
WireSpec == WireInit /\ [][WireNext]_wireVars
-----------------------------------------------------------------------------
(***************************************************************************)
(* sensor_health_transport.md: the two languages exchange records.  What   *)
(* one of them publishes the other reads back as it was; and of any frame, *)
(* with whatever bytes for texts, with lengths that cover the body and     *)
(* lengths that do not, with any times and status, either both refuse it   *)
(* or both read the one record that is published in that way.              *)
(***************************************************************************)
LanguagesAgree ==
  /\ sent # Refused => CppDecode(wire) = sent /\ PyDecode(wire) = sent
  /\ wire # Refused => /\ CppDecode(wire) = PyDecode(wire)
                       /\ CppDecode(wire) # Refused => /\ CppEncode(CppDecode(wire)) = wire
                                                    /\ PyEncode(CppDecode(wire)) = wire
=============================================================================

------------------------------ MODULE Truncate ------------------------------
(***************************************************************************)
(* truncate and truncateOutput (src/worker/worker.go): how much of an      *)
(* output goes into the record of a submission.  A text is a sequence of   *)
(* characters, each named by the stream it comes from and its position.    *)
(***************************************************************************)
EXTENDS Integers, Sequences

CONSTANTS
    HeaderLen,  \* length of stdoutPrefix and stderrPrefix
    MessageLen  \* length of "[internal error] failed to read content: ..."

ASSUME LengthAssumption == {HeaderLen, MessageLen} \subseteq Nat \ {0}

Text(name, n) == [i \in 1..n |-> <<name, i>>]
Newline == <<"newline", 1>>
Header(name) == Text("header of " \o name, HeaderLen)
Message == Text("message", MessageLen)

Clamp(n, low, high) == IF n < low THEN low ELSE IF n > high THEN high ELSE n

-----------------------------------------------------------------------------

Whole == -1     \* the buffer length that means: read everything

(* io.ReadFull and io.ReadAll on what a file has left; an error, such as a *)
(* file that ends too soon, puts a message in the place of the content.    *)
Read(left, buffLen, fails) ==
    IF fails /\ buffLen # 0 THEN Message
    ELSE IF buffLen = Whole THEN left
    ELSE IF Len(left) < buffLen THEN Message
    ELSE SubSeq(left, 1, buffLen)

WithPrefix(prefix, content) ==
    IF prefix = <<>> THEN content ELSE prefix \o <<Newline>> \o content \o <<Newline>>

truncate(prefix, content, buffLen) ==
    LET res == WithPrefix(prefix, content) IN
    IF buffLen # Whole /\ Len(res) > buffLen
    THEN SubSeq(res, 1, buffLen - 1) \o <<Newline>>
    ELSE res

(* res[:buffLen-1] is out of range. *)
Panics(prefix, buffLen) == prefix # <<>> /\ buffLen = 0

-----------------------------------------------------------------------------

(* Mutant: each stream may take the whole limit. *)
StreamLimitWhole(size, other, limit) ==
    IF size + other > limit THEN Clamp(size, 0, limit) ELSE Whole

(* The share of one of two streams of a compiler in the record.            *)
StreamLimit(size, other, limit) ==
    IF size + other > limit THEN Clamp(size, 0, limit \div 2) ELSE Whole
=============================================================================

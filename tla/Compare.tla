------------------------------- MODULE Compare -------------------------------
(***************************************************************************)
(* The comparators of src/judge/compare.go that a problem can choose:      *)
(* compareAll, compareLines2 and compareFloats.  A text is a sequence of   *)
(* characters; a hash is modelled by the sequence that was written to it,  *)
(* that is, as free of collisions.  A number is a sequence of digits, in   *)
(* units of the last place, or "NaN".                                      *)
(***************************************************************************)
EXTENDS Integers, Sequences, SequencesExt

CONSTANTS
    Letters,    \* characters other than newline and carriage return
    MaxLen,     \* bound on the length of a text
    BufSize,    \* size of the buffer of a bufio.Reader
    Digit,      \* the value of each digit of a number
    FloatLen,   \* bound on the length of a text that is read as a number
    FloatBuf,   \* size of the buffer of readFloat64
    Eps         \* 10 ** -precision, in units of the last place

ASSUME CompareAssumption ==
    /\ "CR" \notin Letters /\ "LF" \notin Letters
    /\ MaxLen \in Nat
    /\ {BufSize, FloatBuf, Eps} \subseteq Nat \ {0}
    /\ FloatLen \in Nat
    /\ Digit \in [DOMAIN Digit -> Nat]
    /\ {"CR", "LF", "NaN"} \cap DOMAIN Digit = {}

VARIABLES
    diffPolicy,     \* Problem.DiffPolicy
    ignoreNewline,  \* Problem.IgnoreNewline
    text,           \* the expected and the actual output
    pos,            \* how much of each was read
    hash,           \* what was written to each hash
    phase,          \* where compareLines2 is
    verdict         \* the result

input == <<diffPolicy, ignoreNewline, text>>
compareVars == <<input, pos, hash, phase, verdict>>

Sides == {"expected", "actual"}
Texts == BoundedSeq(Letters \cup {"CR", "LF"}, MaxLen)

FloatTexts == BoundedSeq(DOMAIN Digit \cup {"NaN", "CR", "LF"}, FloatLen)

(* composeComparator: only compareLines2 looks at ignoreNewline.           *)
TextInputs ==
    /\ diffPolicy \in {"ALL", "LINE", "FLOAT"}
    /\ ignoreNewline \in (IF diffPolicy = "LINE" THEN BOOLEAN ELSE {FALSE})
    /\ text \in [Sides -> IF diffPolicy = "FLOAT" THEN FloatTexts ELSE Texts]

CompareInit ==
    /\ TextInputs
    /\ pos = [s \in Sides |-> 0]
    /\ hash = [s \in Sides |-> <<>>]
    /\ phase = CASE diffPolicy = "ALL" -> "all"
                 [] diffPolicy = "LINE" -> "expected"
                 [] diffPolicy = "FLOAT" -> "float"
    /\ verdict = "pending"

(* Taken(t, K)[n]: the characters of t at those of its first n positions   *)
(* that are in K, in their order.                                          *)
Taken(t, K) ==
    LET f[n \in 0..Len(t)] ==
            IF n = 0 THEN <<>> ELSE IF n \in K THEN Append(f[n - 1], t[n]) ELSE f[n - 1]
    IN  f

Chosen(t, K) == Taken(t, K)[Len(t)]

Goto(from, to) == phase = from /\ phase' = to
Decide(equal) == verdict' = IF equal THEN "equal" ELSE "different"

-----------------------------------------------------------------------------
(* iterHash: one line, in chunks of the buffer size when it is longer.     *)

Newlines(s) == {i \in pos[s] + 1..Len(text[s]) : text[s][i] = "LF"}
AtEOF(s) == Newlines(s) = {}
LineEnd(s) == IF AtEOF(s) THEN Len(text[s]) ELSE Min(Newlines(s))
EndsChunk(s, i) == i = LineEnd(s) \/ (i - pos[s]) % BufSize = 0

(* Mutant: a carriage return is kept. *)
KeptWithCR(s) == {i \in pos[s] + 1..LineEnd(s) : text[s][i] # "LF"}

(* The characters that filter leaves of the chunks of the line.            *)
Kept(s) ==
    {i \in pos[s] + 1..LineEnd(s) :
        /\ text[s][i] # "LF"
        /\ text[s][i] = "CR" => ~EndsChunk(s, i) /\ text[s][i + 1] # "LF"}

(* Mutant: the newline is written whether it is ignored or not. *)
HashedNewline(s) ==
    Chosen(text[s], Kept(s)) \o (IF AtEOF(s) THEN <<>> ELSE <<"LF">>)

Hashed(s) ==
    Chosen(text[s], Kept(s)) \o (IF ignoreNewline \/ AtEOF(s) THEN <<>> ELSE <<"LF">>)

IterHash(s) ==
    /\ hash' = [hash EXCEPT ![s] = @ \o Hashed(s)]
    /\ pos' = [pos EXCEPT ![s] = LineEnd(s)]

-----------------------------------------------------------------------------
(* compareLines2 *)

ReadExpected ==
    /\ Goto("expected", IF AtEOF("expected") THEN "drain actual" ELSE "actual")
    /\ IterHash("expected")
    /\ UNCHANGED <<input, verdict>>

ReadActual ==
    /\ Goto("actual", IF AtEOF("actual") THEN "drain expected" ELSE "compare")
    /\ IterHash("actual")
    /\ UNCHANGED <<input, verdict>>

HashesEqual ==
    /\ hash["expected"] = hash["actual"]
    /\ Goto("compare", "expected")
    /\ UNCHANGED <<input, pos, hash, verdict>>

HashesDiffer ==
    /\ hash["expected"] # hash["actual"]
    /\ Goto("compare", "done")
    /\ Decide(FALSE)
    /\ UNCHANGED <<input, pos, hash>>

Drain(s) ==
    /\ LET drain == IF s = "expected" THEN "drain expected" ELSE "drain actual"
       IN  Goto(drain, IF AtEOF(s) THEN "end" ELSE drain)
    /\ IterHash(s)
    /\ UNCHANGED <<input, verdict>>

CompareEnd ==
    /\ Goto("end", "done")
    /\ Decide(hash["expected"] = hash["actual"])
    /\ UNCHANGED <<input, pos, hash>>

-----------------------------------------------------------------------------

CompareAll ==
    /\ Goto("all", "done")
    /\ Decide(text["expected"] = text["actual"])
    /\ UNCHANGED <<input, pos, hash>>

-----------------------------------------------------------------------------
(* compareFloats *)

Chopped(u, c) == IF u # <<>> /\ Last(u) = c THEN Front(u) ELSE u

(* readFloat64 parses what filter leaves of the first FloatBuf characters, *)
(* and of an empty output a buffer of zeros.                               *)
Numeral(s) ==
    LET head == SubSeq(text[s], 1, Min({FloatBuf, Len(text[s])}))
    IN  Chopped(Chopped(head, "LF"), "CR")

IsFloat(u) == u = <<"NaN">> \/ (u # <<>> /\ Range(u) \subseteq DOMAIN Digit)
Value(u) ==
    LET f[n \in 0..Len(u)] == IF n = 0 THEN 0 ELSE 10 * f[n - 1] + Digit[u[n]]
    IN  f[Len(u)]

(* Mutant: the difference is not made absolute. *)
FarWithoutAbs(u, v) ==
    IF <<"NaN">> \in {u, v} THEN {FALSE} ELSE {Value(v) - Value(u) >= Eps}

(* The outcomes of math.Abs(v - u) >= math.Pow(10, -precision): rounding   *)
(* decides when they are equal, and no comparison with NaN is true.        *)
Far(u, v) ==
    LET gap == Max({Value(v) - Value(u), Value(u) - Value(v)}) IN
    IF <<"NaN">> \in {u, v} THEN {FALSE}
    ELSE IF gap = Eps THEN BOOLEAN
    ELSE {gap > Eps}

FloatsDecide ==
    /\ \A s \in Sides : IsFloat(Numeral(s))
    /\ Goto("float", "done")
    /\ \E far \in Far(Numeral("expected"), Numeral("actual")) : Decide(~far)
    /\ UNCHANGED <<input, pos, hash>>

NotAFloat ==
    /\ \E s \in Sides : ~IsFloat(Numeral(s))
    /\ Goto("float", "done")
    /\ verdict' = "error"
    /\ UNCHANGED <<input, pos, hash>>

-----------------------------------------------------------------------------

(* A failing read is an error, but for compareAll a difference; a          *)
(* precision that is too large is an error of compareFloats as well.       *)
ReadFails ==
    /\ phase \notin {"compare", "end", "done"}
    /\ verdict' = IF diffPolicy = "ALL" THEN "different" ELSE "error"
    /\ phase' = "done"
    /\ UNCHANGED <<input, pos, hash>>

CompareNext ==
    \/ ReadExpected \/ ReadActual
    \/ HashesEqual \/ HashesDiffer
    \/ \E s \in Sides : Drain(s)
    \/ CompareEnd
    \/ CompareAll
    \/ FloatsDecide \/ NotAFloat
    \/ ReadFails

CompareSpec == CompareInit /\ [][CompareNext]_compareVars

-----------------------------------------------------------------------------
(* Properties *)

(* Texts in which a carriage return stands before a newline only; the     *)
(* tests of compareLines2 skip all others.                                 *)
Proper(t) == \A i \in DOMAIN t : t[i] = "CR" => i < Len(t) /\ t[i + 1] = "LF"

ProperInput == \A s \in Sides : Proper(text[s])

(* The lines of a proper text, with newlines of one form. *)
Normal(t) == Chosen(t, {i \in DOMAIN t : t[i] # "CR"})
Joined(t) == Chosen(t, {i \in DOMAIN t : t[i] \in Letters})
SameButLastNewline(t, u) ==
    Normal(u) \in {Normal(t), Normal(t) \o <<"LF">>} \/ Normal(t) = Normal(u) \o <<"LF">>

Done(p) == diffPolicy = p /\ verdict \in {"equal", "different"}

(* Without ignoreNewline two outputs are equal if and only if they differ  *)
(* in nothing but the form of their newlines, wherever the line breaks     *)
(* fall in the buffer of the reader and whichever output ends first.       *)
LinesExact ==
    (Done("LINE") /\ ~ignoreNewline /\ ProperInput) =>
        (verdict = "equal" <=> Normal(text["expected"]) = Normal(text["actual"]))

(* With ignoreNewline a newline more or less at the end makes no           *)
(* difference, and outputs that differ in their other characters are       *)
(* never accepted.  That it is the last newline only, as the comment of    *)
(* the field says, is LastNewlineIgnored, which does not hold.             *)
IgnoreNewlineOnly ==
    (Done("LINE") /\ ignoreNewline /\ ProperInput) =>
        /\ SameButLastNewline(text["expected"], text["actual"]) => verdict = "equal"
        /\ verdict = "equal" => Joined(text["expected"]) = Joined(text["actual"])

(* "Whether the diff ignores the last new line."                           *)
(* (src/proto/model.proto:42): with ignoreNewline two outputs are equal if *)
(* and only if they are the same but for a newline at the end.  The code   *)
(* hashes no newline at all, so that "ab" equals "a", newline, "b".        *)
LastNewlineIgnored ==
    (Done("LINE") /\ ignoreNewline /\ ProperInput) =>
        (verdict = "equal" <=> SameButLastNewline(text["expected"], text["actual"]))

(* Two outputs that are a number and a line break are equal if the numbers *)
(* are closer than Eps, and different if they are farther apart; NaN is    *)
(* equal to every number, which the code does not say it wants.  Nothing   *)
(* that fits into the buffer and is no number gets a verdict.              *)
LineBreaks == {<<>>, <<"LF">>, <<"CR">>, <<"CR", "LF">>}
NumbersOf(t) ==
    {u \in {SubSeq(t, 1, n) : n \in 0..Len(t)} :
        IsFloat(u) /\ Len(u) <= FloatBuf /\ \E b \in LineBreaks : t = u \o b}

FloatExact ==
    Done("FLOAT") =>
        /\ \A e \in NumbersOf(text["expected"]), a \in NumbersOf(text["actual"]) :
            LET Close(d) == Value(a) - Value(e) \in -d..d IN
            IF <<"NaN">> \in {e, a} THEN verdict = "equal"
            ELSE /\ Close(Eps - 1) => verdict = "equal"
                 /\ verdict = "equal" => Close(Eps)
        /\ \A s \in Sides : NumbersOf(text[s]) = {} => Len(text[s]) > FloatBuf

-----------------------------------------------------------------------------
(* The inductive invariant behind the theorems of RecordProofs.            *)

PhaseOfPolicy ==
    /\ phase \in {"done"} \cup
        CASE diffPolicy = "ALL" -> {"all"}
          [] diffPolicy = "LINE" -> {"expected", "actual", "compare", "drain actual",
                                     "drain expected", "end"}
          [] diffPolicy = "FLOAT" -> {"float"}
    /\ phase # "done" => verdict = "pending"

Positions ==
    /\ pos \in [Sides -> Nat]
    /\ hash \in [Sides -> Seq(Letters \cup {"CR", "LF"})]
    /\ \A s \in Sides : pos[s] <= Len(text[s])
    /\ phase \in {"drain actual", "end"} => pos["expected"] = Len(text["expected"])
    /\ phase \in {"drain expected", "end"} => pos["actual"] = Len(text["actual"])

Lined == diffPolicy = "LINE" /\ ProperInput

(* What was hashed of a text is what Normal or Joined keeps of its lines.  *)
Written(s) ==
    {i \in DOMAIN text[s] :
        IF ignoreNewline THEN text[s][i] \in Letters ELSE text[s][i] # "CR"}

HashesLines == Lined => \A s \in Sides : hash[s] = Taken(text[s], Written(s))[pos[s]]

(* The normal form of the lines that were read.                            *)
LinesRead(s) == Taken(text[s], {i \in DOMAIN text[s] : text[s][i] # "CR"})[pos[s]]

(* u is t and one more line. *)
OneMoreLine(t, u) ==
    /\ Len(t) < Len(u) /\ IsPrefix(t, u)
    /\ \A i \in Len(t) + 1..Len(u) : u[i] = "LF" <=> i = Len(u)

(* Of texts that are the same but for their ends, the same lines were read.*)
InStep ==
    Lined /\ SameButLastNewline(text["expected"], text["actual"]) =>
        /\ phase \in {"expected", "compare"} => LinesRead("expected") = LinesRead("actual")
        /\ phase = "actual" => OneMoreLine(LinesRead("actual"), LinesRead("expected"))

CompareInv ==
    /\ TextInputs /\ PhaseOfPolicy /\ Positions
    /\ HashesLines /\ InStep
    /\ LinesExact /\ IgnoreNewlineOnly /\ FloatExact
=============================================================================

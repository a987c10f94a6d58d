--------------------------- MODULE CollectVerify ---------------------------
(***************************************************************************)
(* verify: the API reads a collected JSON file, compares it with the       *)
(* caller's expectations itself where it can reproduce the worker's        *)
(* comparison exactly (collect-verification.ts), and leaves the rest to    *)
(* the worker (verify-executor.ts).  A name is a model value with its      *)
(* folded form, an amount is its digits and how they are written.          *)
(***************************************************************************)
EXTENDS Integers, Sequences, FiniteSets

CONSTANTS
  Sources,        \* documents a caller may have collected: complete, pages
  OtherSource,    \* what somebody else may collect into the file
  Expectations,   \* lists of expectations a caller may give
  MaxScale,       \* decimal places of a .NET decimal (28)
  Places          \* bound: decimal places an amount is written with

(* A document is a sequence of pages, each a name and its fields, each a   *)
(* label and a value; complete is "none" in the old format.                *)
CollectedValue ==
  [mark: {"none", "comma", "dot", "text"}, digits: Int, places: 0..Places, text: STRING]
CollectedPage == [name: STRING, fields: Seq([label: STRING, value: CollectedValue])]
CollectedDocument == [complete: {"yes", "no", "none"}, pages: Seq(CollectedPage)]
Expectation == [page: STRING, label: STRING, value: CollectedValue,
                pageOccurrence: Nat, labelOccurrence: Nat]

(* Cents have two places. *)
ASSUME VerifyAssumption ==
  /\ MaxScale \in Nat /\ Places \in Nat \ {0, 1}
  /\ Sources \subseteq CollectedDocument /\ Expectations \subseteq Seq(Expectation)

VARIABLES
  vpc,        \* phase of executeLocalVerify
  source,     \* what the file holds
  edits,      \* times it was changed (its state besides its content)
  bytes,      \* the first read: content and edits
  again,      \* the second read, the last thing before the comparison
  wanted,     \* expectedSourceHash: the content the caller knows
  expected,   \* args.erwartungen
  partial,    \* args.allowIncompleteSource
  halted,     \* "no", "aborted", "timeout"
  vanswer     \* the answer: kind and the compared expectations

vvars == <<vpc, source, edits, bytes, again, wanted, expected, partial, halted, vanswer>>

---------------------------------------------------------------------------
(* foldLocalOrdinal and foldLocalValue: "?" where Node and .NET could fold *)
(* differently.                                                            *)
FoldLocalOrdinal(name) ==
  CASE name = "A" -> "a" [] name = "odd" -> "?" [] OTHER -> name
FoldLocalValue(text) == FoldLocalOrdinal(text)
Includes(name, part) == name = part \/ (name = "ab" /\ part = "a")

(* parseTableNumber: a dot before exactly three digits groups thousands.   *)
ParseTableNumber(value) ==
  [digits |-> value.digits,
   scale |-> IF value.mark = "dot" /\ value.places = 3 THEN 0
             ELSE IF value.mark = "none" THEN 0 ELSE value.places]

(* The table goes to MaxScale, which no place of it that is used exceeds.  *)
POWERS_OF_TEN[exponent \in Nat] ==
  IF exponent = 0 THEN 1 ELSE 10 * POWERS_OF_TEN[exponent - 1]

(* decimalFromNormalized: trailing zeros are taken off.                    *)
TrailingZeros(d) ==
  CHOOSE k \in 0..d.scale: /\ d.digits % POWERS_OF_TEN[k] = 0
                           /\ \A j \in k + 1..d.scale: d.digits % POWERS_OF_TEN[j] # 0
DecimalFromNormalized(value) ==
  LET d == ParseTableNumber(value)  k == TrailingZeros(d)
  IN [digits |-> d.digits \div POWERS_OF_TEN[k], scale |-> d.scale - k]
Unrepresentable(d) == d.scale > MaxScale

MaxScaleOf(l, r) == IF l.scale >= r.scale THEN l.scale ELSE r.scale
Scaled(d, scale) == d.digits * POWERS_OF_TEN[scale - d.scale]
DecimalEqual(l, r) ==
  Scaled(l, MaxScaleOf(l, r)) = Scaled(r, MaxScaleOf(l, r))

(* roundedDifference: in cents, halves to the even cent.                   *)
Abs(n) == IF n < 0 THEN -n ELSE n
Rounds(remainder, divisor, cents) ==
  remainder * 2 > divisor \/ (remainder * 2 = divisor /\ cents % 2 # 0)
RoundedDifference(l, r) ==
  LET scale == MaxScaleOf(l, r)
      difference == Scaled(l, scale) - Scaled(r, scale)
  IN IF scale <= 2 THEN difference * POWERS_OF_TEN[2 - scale]
     ELSE LET divisor == POWERS_OF_TEN[scale - 2]
              whole == Abs(difference) \div divisor
              rounded == IF Rounds(Abs(difference) % divisor, divisor, whole)
                         THEN whole + 1 ELSE whole
          IN IF difference < 0 THEN -rounded ELSE rounded

Same(equal, difference) == [fallback |-> FALSE, equal |-> equal, difference |-> difference]
Unsure == [fallback |-> TRUE, equal |-> FALSE, difference |-> 0]

CompareValues(actual, soll) ==
  IF actual.mark = "text" \/ soll.mark = "text"
  THEN IF "?" \in {FoldLocalValue(actual.text), FoldLocalValue(soll.text)} THEN Unsure
       ELSE Same(actual.mark = soll.mark
                 /\ FoldLocalValue(actual.text) = FoldLocalValue(soll.text), 0)
  ELSE LET l == DecimalFromNormalized(actual)  r == DecimalFromNormalized(soll)
       IN IF Unrepresentable(l) \/ Unrepresentable(r) THEN Unsure
          ELSE Same(DecimalEqual(l, r), RoundedDifference(l, r))

---------------------------------------------------------------------------
(* resolveMatch: equal names come before names that contain the needle; of *)
(* several an occurrence chooses, and without one none is chosen.          *)
Matches(names, needle) ==
  LET exact == {i \in DOMAIN names: FoldLocalOrdinal(names[i]) = FoldLocalOrdinal(needle)}
  IN IF exact # {} THEN exact
     ELSE {i \in DOMAIN names: Includes(FoldLocalOrdinal(names[i]), FoldLocalOrdinal(needle))}
Unfoldable(names, needle) ==
  "?" \in {FoldLocalOrdinal(needle)} \cup {FoldLocalOrdinal(names[i]): i \in DOMAIN names}

(* The occurrence counts the matches in their order, from one.             *)
Nth(set, n) == CHOOSE i \in set: Cardinality({j \in set: j <= i}) = n
Chosen(set, occurrence) ==
  IF occurrence = 0
  THEN IF Cardinality(set) = 1 THEN set ELSE {}
  ELSE IF occurrence <= Cardinality(set) THEN {Nth(set, occurrence)} ELSE {}

ResolveMatch(names, needle, occurrence) ==
  IF Unfoldable(names, needle) THEN {0} ELSE Chosen(Matches(names, needle), occurrence)

PageNames(doc) == [i \in DOMAIN doc.pages |-> doc.pages[i].name]
Labels(page) == [i \in DOMAIN page.fields |-> page.fields[i].label]

(* One turn of compareCollectExpectations: the status of an expectation.   *)
FailureStatus == [kind |-> "not-found", difference |-> 0]
Status(doc, e) ==
  LET p == ResolveMatch(PageNames(doc), e.page, e.pageOccurrence) IN
  IF p = {0} THEN [kind |-> "fallback", difference |-> 0]
  ELSE IF p = {} THEN FailureStatus
  ELSE LET page == doc.pages[CHOOSE i \in p: TRUE]
           f == ResolveMatch(Labels(page), e.label, e.labelOccurrence)
       IN IF f = {0} THEN [kind |-> "fallback", difference |-> 0]
          ELSE IF f = {} THEN FailureStatus
          ELSE LET c == CompareValues(page.fields[CHOOSE i \in f: TRUE].value, e.value)
               IN [kind |-> IF c.fallback THEN "fallback"
                            ELSE IF c.equal THEN "equal" ELSE "differs",
                   difference |-> c.difference]

CompareCollectExpectations(doc, list) == [i \in DOMAIN list |-> Status(doc, list[i])]

---------------------------------------------------------------------------
VerifyInit(start) ==
  /\ vpc = start /\ edits = 0 /\ bytes = << >> /\ again = << >>
  /\ wanted \in Sources /\ source \in {wanted, OtherSource} /\ expected \in Expectations /\ partial \in BOOLEAN
  /\ halted = "no" /\ vanswer = << >>

Ends(kind, statuses) == vpc' = "done" /\ vanswer' = <<[kind |-> kind, statuses |-> statuses]>>

(* localResult: an abort or the timeout replaces every other result.       *)
LocalResult(kind, statuses) ==
  IF halted = "no" THEN Ends(kind, statuses) ELSE Ends(halted, << >>)

(* readStableJsonFile: what is read stood in the file at one moment; a     *)
(* file written to while it is read is not used, nor one that is missing.  *)
Read == [content |-> source, edits |-> edits]
ReadFailed ==
  \E kind \in {"verification-source-changed", "bad-args", "invalid-source"}: LocalResult(kind, << >>)

FirstRead ==
  /\ vpc = "read"
  /\ \/ ReadFailed /\ UNCHANGED bytes
     \/ /\ bytes' = <<Read>>
        /\ IF halted # "no" THEN Ends(halted, << >>)
           ELSE IF source # wanted THEN Ends("precondition-failed", << >>)
           ELSE vpc' = "reread" /\ UNCHANGED vanswer
  /\ UNCHANGED <<source, edits, again, wanted, expected, partial, halted>>

(* The hash and the state of the file are those of the first read.         *)
SameSource == Read = bytes[1]

SecondRead ==
  /\ vpc = "reread"
  /\ \/ ReadFailed /\ UNCHANGED again
     \/ /\ again' = <<Read>>
        /\ IF halted # "no" THEN Ends(halted, << >>)
           ELSE IF ~SameSource THEN Ends("verification-source-changed", << >>)
           ELSE vpc' = "compare" /\ UNCHANGED vanswer
  /\ UNCHANGED <<source, edits, bytes, wanted, expected, partial, halted>>

ExecuteLocalVerify ==
  /\ vpc = "compare"
  /\ LET doc == bytes[1].content
         statuses == CompareCollectExpectations(doc, expected)
     IN IF halted # "no" THEN Ends(halted, << >>)
        ELSE IF doc.pages = << >> THEN Ends("invalid-source", << >>)
        ELSE IF doc.complete # "yes" /\ ~partial
             THEN Ends("verification-source-incomplete", << >>)
        ELSE IF \E i \in DOMAIN statuses: statuses[i].kind = "fallback"
             THEN Ends("worker-fallback", << >>)
        ELSE Ends("compared", statuses)
  /\ UNCHANGED <<source, edits, bytes, again, wanted, expected, partial, halted>>

SomebodyCollects ==
  /\ vpc # "done" /\ edits < 1
  /\ source' \in {source, OtherSource} /\ edits' = edits + 1
  /\ UNCHANGED <<vpc, bytes, again, wanted, expected, partial, halted, vanswer>>

VerifyHalts ==
  /\ vpc # "done" /\ halted = "no" /\ halted' \in {"aborted", "timeout"}
  /\ UNCHANGED <<vpc, source, edits, bytes, again, wanted, expected, partial, vanswer>>

VerifyNext ==
  FirstRead \/ SecondRead \/ ExecuteLocalVerify \/ SomebodyCollects \/ VerifyHalts

---------------------------------------------------------------------------
(* The fields an expectation may mean: those whose names fit exactly and,  *)
(* where the caller counted, only the one that was counted.                *)
Fits(names, needle, occurrence) ==
  LET same == {i \in DOMAIN names: FoldLocalOrdinal(names[i]) = FoldLocalOrdinal(needle)}
  IN {i \in same: occurrence # 0 => Cardinality({j \in same: j <= i}) = occurrence}
Meant(doc, e) ==
  UNION {{doc.pages[i].fields[j].value: j \in Fits(Labels(doc.pages[i]), e.label, e.labelOccurrence)}:
           i \in Fits(PageNames(doc), e.page, e.pageOccurrence)}
Numeric(v) == v.mark # "text"

(* An amount in units of the last place anything is written with.          *)
Units(v) == LET d == ParseTableNumber(v) IN d.digits * POWERS_OF_TEN[Places - d.scale]

(* A comparison speaks of the content the caller named, complete unless a  *)
(* part was asked for: the file still held it, not written to since it was *)
(* read, when everything was read that is compared (verify-executor.ts     *)
(* executeLocalVerify).  "stimmt" is given only where every field that may  *)
(* have been meant equals the value; a reported difference is the nearest  *)
(* cent, an even one between two (collect-verification.ts).                *)
VerifyAnswerIsTrue ==
  vanswer # << >> /\ vanswer[1].kind = "compared" =>
    /\ wanted.complete = "yes" \/ partial
    /\ again # << >> /\ again[1].content = wanted /\ again[1].edits = bytes[1].edits
    /\ \A i \in DOMAIN expected: \A v \in Meant(wanted, expected[i]):
         LET s == vanswer[1].statuses[i]
             exact == Units(v) - Units(expected[i].value)
             cent == POWERS_OF_TEN[Places - 2]
             off == Abs(exact - s.difference * cent)
         IN /\ s.kind = "equal" =>
                 IF Numeric(v) THEN Numeric(expected[i].value) /\ exact = 0
                 ELSE FoldLocalValue(v.text) = FoldLocalValue(expected[i].value.text)
            /\ s.kind = "differs" /\ Numeric(v) /\ Numeric(expected[i].value)
                 => 2 * off < cent \/ (2 * off = cent /\ s.difference % 2 = 0)

=============================================================================

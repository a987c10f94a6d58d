---------------------------- MODULE MCOperations ----------------------------
(***************************************************************************)
(* A small instance of Operations: the values below are the least that     *)
(* make every branch of the operations happen.                              *)
(***************************************************************************)
EXTENDS Operations

(* Scenarios: steps that read, may fail, write and refer to a result, and  *)
(* a cleanup that cleans, reads and, against the schema, writes.            *)
ScStep(class, continue, timeout, ref) ==
  [class |-> class, continue |-> continue, timeout |-> timeout, ref |-> ref]
MCMainSteps == {ScStep("read", FALSE, 0, 0), ScStep("read", TRUE, 1, 0),
                ScStep("write", FALSE, 2, 1)}
MCFinallySteps == {ScStep("cleanup", FALSE, 0, 1), ScStep("read", FALSE, 1, 0),
                   ScStep("write", FALSE, 0, 0)}

(* Collected pages: numbers that are equal or off by a half in another     *)
(* notation, a text, and one that cannot be folded.                         *)
Num(digits, mark, places) == [digits |-> digits, mark |-> mark, places |-> places, text |-> ""]
Txt(word) == [digits |-> 0, mark |-> "text", places |-> 0, text |-> word]
Field(label, value) == [label |-> label, value |-> value]
PageOf(name, fields) == [name |-> name, fields |-> fields]
MCValues == {Num(1250, "comma", 3), Num(-1255, "comma", 3), Num(125, "comma", 2),
             Num(1250, "dot", 3), Num(12345, "comma", 4), Txt("A"), Txt("odd")}
MCOtherSource == [complete |-> "none", pages |-> <<PageOf("a", <<Field("a", Txt("a"))>>)>>]
MCSources ==
  {[complete |-> "yes",
    pages |-> <<PageOf(n, <<Field("a", v)>>), PageOf("ab", <<Field(l, v), Field("a", w)>>)>>]:
     l \in {"A", "ab"}, n \in {"A", "ab", "odd"}, v \in MCValues,
     w \in {Num(1, "none", 0), Num(125, "comma", 2)}}
  \cup {MCOtherSource, [complete |-> "yes", pages |-> << >>]}
MCExpectations ==
  {<<[page |-> p, label |-> "a", value |-> v, pageOccurrence |-> o, labelOccurrence |-> k]>>:
     p \in {"a", "ab"}, v \in MCValues, o \in {0, 2}, k \in {0, 1}}

(* Case files: one that is unreadable, one that was sent, one that was not *)
(* as far as it is not encrypted, and one whose records stop parsing after *)
(* one of another type.                                                     *)
Rec(name, type, value) == [name |-> name, type |-> type, value |-> value]
MCHeaders ==
  {<<Rec("damaged", "text", "time")>>,
   <<Rec("ElsterTransferTime", "text", "placeholder"), Rec("ElsterTransferTime", "text", "time")>>,
   <<Rec("ElsterTransferTime", "text", "placeholder"), Rec("SvCrypted", "text", "x"),
     Rec("ElsterTransferTime", "text", "time")>>,
   <<Rec("ElsterTransferTime", "number", "time"), Rec("damaged", "text", "x"),
     Rec("ElsterTransferTime", "text", "time")>>}

=============================================================================

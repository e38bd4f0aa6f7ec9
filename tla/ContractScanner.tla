---------------------------- MODULE ContractScanner ----------------------------
(***************************************************************************)
(* The contract scanner: SolidityRuleEngine and the bytecode features of   *)
(* src/scanner, and ContractScanner, which turns findings into a score.    *)
(*                                                                         *)
(* A line is the set of what the regular expressions find in it.  Scores   *)
(* are in hundredths; the bytecode is a sequence of the kinds of bytes     *)
(* that the features tell apart.                                           *)
(***************************************************************************)
EXTENDS Integers, Sequences, FiniteSets, SequencesExt, FiniteSetsExt

CONSTANTS
  AfterCall,      \* lines looked at after a call: 5
  AfterFunction,  \* lines looked at after a function's own: 20
  BeforeDestruct, \* lines looked at up to a selfdestruct: 10
  LargeCode       \* bytes a contract counts as large beyond: 20000

ASSUME ContextAssumption ==
  {AfterCall, AfterFunction, BeforeDestruct, LargeCode} \subseteq Nat \ {0}

Score == [critical |-> 100, high |-> 75, medium |-> 50, low |-> 25]

\* What the lines from first to last hold, clipped to the source.
Within(lines, first, last) ==
  UNION {lines[i] : i \in {j \in DOMAIN lines : first <= j /\ j <= last}}
Everywhere(lines) == Within(lines, 1, Len(lines))

Finding(type, line, pattern, severity, confidence) ==
  [type |-> type, line |-> line, pattern |-> pattern, severity |-> severity,
   confidence |-> confidence]

\* One finding for each pattern of a low-level call; it is surer when a state
\* update follows.
CallPatterns == {".call.value(", ".call{value:", ".call(\"\")"}
Reentrancy(lines) ==
  {Finding("REENTRANCY", call[1], call[2], "critical",
           IF "update" \in Within(lines, call[1] + 1, call[1] + AfterCall) THEN 90 ELSE 65) :
     call \in {c \in (DOMAIN lines) \X CallPatterns : c[2] \in lines[c[1]]}}

TimestampDependency(lines) ==
  {Finding("TIMESTAMP_DEPENDENCY", i, "",
           IF "critical word" \in lines[i] THEN "medium" ELSE "low", 80) :
     i \in {j \in DOMAIN lines : "block.timestamp" \in lines[j]}}

Protections == {"onlyOwner", "require(msg.sender", "onlyAdmin", "onlyRole", "modifier"}

\* The function's own line is not looked at, the functions after it are.
AccessControl(lines) ==
  {Finding("ACCESS_CONTROL", i, "", "high", 70) :
     i \in {j \in DOMAIN lines :
              /\ "public function" \in lines[j]
              /\ LET context == Within(lines, j + 1, j + AfterFunction) IN
                 "state change" \in context /\ context \cap Protections = {}}}

\* The first arithmetic line stands for all.
IntegerOverflow(lines) ==
  LET arithmetic == {i \in DOMAIN lines : "arithmetic" \in lines[i]} IN
  IF /\ "old pragma" \in Everywhere(lines)
     /\ "SafeMath" \notin Everywhere(lines)
     /\ arithmetic # {}
  THEN {Finding("INTEGER_OVERFLOW", Min(arithmetic), "", "high", 85)} ELSE {}

UncheckedReturn(lines) ==
  {Finding("UNCHECKED_RETURN", i, "", "medium", 75) :
     i \in {j \in DOMAIN lines :
              ".transfer(" \in lines[j] /\ lines[j] \cap {"require", "assert"} = {}}}

\* Mutant: protection is also looked for in the lines that follow.
SelfdestructAhead(lines) ==
  {Finding("SELFDESTRUCT", i, "",
           IF Within(lines, i - BeforeDestruct + 1, i + AfterCall)
                \cap {"onlyOwner", "require(msg.sender"} = {}
           THEN "critical" ELSE "low", 95) :
     i \in {j \in DOMAIN lines : "selfdestruct(" \in lines[j]}}

Selfdestruct(lines) ==
  {Finding("SELFDESTRUCT", i, "",
           IF Within(lines, i - BeforeDestruct + 1, i)
                \cap {"onlyOwner", "require(msg.sender"} = {}
           THEN "critical" ELSE "low", 95) :
     i \in {j \in DOMAIN lines : "selfdestruct(" \in lines[j]}}

Scan(lines) ==
  UNION {Reentrancy(lines), TimestampDependency(lines), AccessControl(lines),
         IntegerOverflow(lines), UncheckedReturn(lines), Selfdestruct(lines)}

Worst(findings) == Max({Score[f.severity] : f \in findings})
Total(findings) == SumFunction([f \in findings |-> Score[f.severity]])

\* Mutant: the weights of the worst and of the mean are swapped.
RiskTimesSwapped(findings) ==
  3 * Worst(findings) * Cardinality(findings) + 7 * Total(findings)

\* 0.7 of the worst finding and 0.3 of their mean, times 10 * their number.
RiskTimes(findings) ==
  7 * Worst(findings) * Cardinality(findings) + 3 * Total(findings)

\* Ten thousandths, rounded; 0 without a finding.
SourceRisk(lines) ==
  LET findings == Scan(lines)
      n == Cardinality(findings) IN
  IF findings = {} THEN 0 ELSE (20 * RiskTimes(findings) + n) \div (2 * n)

-----------------------------------------------------------------------------
(* Bytecode *)

PushSize(byte) == CASE byte = "push1" -> 1 [] byte = "push2" -> 2 [] OTHER -> 0

\* Mutant: the bytes a PUSH carries are taken for opcodes.
OpcodesAll(code) == code

\* The opcodes of a bytecode, from the first byte on, without what they push.
Opcodes(code) ==
  LET upTo[i \in 0..Len(code)] ==
        IF i = 0 THEN [skip |-> 0, seen |-> <<>>]
        ELSE IF upTo[i - 1].skip > 0
        THEN [skip |-> upTo[i - 1].skip - 1, seen |-> upTo[i - 1].seen]
        ELSE [skip |-> PushSize(code[i]), seen |-> Append(upTo[i - 1].seen, code[i])]
  IN  upTo[Len(code)].seen

Count(code, opcode) == Cardinality({i \in DOMAIN Opcodes(code) : Opcodes(code)[i] = opcode})

\* Ten thousandths; frequencies are over the bytes, the pushed ones included.
BytecodeRisk(code) ==
  LET factor(applies, weight) == IF applies THEN weight ELSE 0 IN
    factor(Count(code, "selfdestruct") > 0, 3000) + factor(Count(code, "delegatecall") > 0, 2500)
  + factor(50 * Count(code, "call") > Len(code), 2000) + factor(Count(code, "timestamp") > 0, 1000)
  + factor(20 * Count(code, "sstore") > Len(code), 1000) + factor(Len(code) > LargeCode, 500)

\* scan_full, for whichever of the two was given.
CombinedRisk(lines, code) ==
  Max({0} \cup (IF lines = <<>> THEN {} ELSE {SourceRisk(lines)})
          \cup (IF code = <<>> THEN {} ELSE {BytecodeRisk(code)}))
=============================================================================

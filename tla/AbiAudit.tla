------------------------------ MODULE AbiAudit ------------------------------
(***************************************************************************)
(* scripts/abi_audit.py: the static audit of callee-saved registers, and   *)
(* the machine on which its verdict must hold.  One exported assembly      *)
(* function is written from blocks of instructions, audited, and, if the   *)
(* audit passes, called.                                                   *)
(*                                                                         *)
(* An instruction is its mnemonic and its operands; a conditional jump     *)
(* skips the block after its own.  Every block opens with a local label.   *)
(***************************************************************************)
EXTENDS Naturals, Sequences, SequencesExt

CONSTANTS Blocks,       \* what functions are written from
          MaxBlocks,    \* how many blocks a function may have
          Ways          \* how the function stands in the tree, see FileWays

I(m, ops) == [m |-> m, ops |-> ops]
push(r) == I("push", <<r>>)
pop(r)  == I("pop", <<r>>)
Ret     == I("ret", <<>>)
Branch  == << I("jz", <<>>) >>

CALLEE_SAVED == {"rbx", "rbp", "r12", "r13", "r14", "r15"}

(* One narrower name per register stands for all of them.                  *)
ALIASES == [ebx |-> "rbx", ebp |-> "rbp", r12d |-> "r12", r13d |-> "r13",
            r14d |-> "r14", r15d |-> "r15"]

EXPECTED_PROLOGUE ==
    << push("rbp"), I("mov", <<"rbp", "rsp">>), push("rbx"), push("r12"),
       push("r13"), push("r14"), push("r15") >>

(* cmov stands for every mnemonic that begins with it.                     *)
WRITE_FIRST_OPERAND ==
    {"mov", "movzx", "movsx", "movsxd", "lea", "add", "sub", "and", "or", "xor",
     "adc", "sbb", "inc", "dec", "neg", "not", "shl", "shr", "sar", "rol", "ror",
     "imul", "xchg", "sete", "setne", "seta", "setae", "setb", "setbe", "setg",
     "setge", "setl", "setle", "setz", "setnz", "cmov", "bswap", "pop"}

AF_ENTER == Append(EXPECTED_PROLOGUE, I("sub", <<"rsp", "8">>))
Unwind   == I("lea", <<"rsp", "[rbp-40]">>)
AF_LEAVE ==
    << Unwind, pop("r15"), pop("r14"), pop("r13"), pop("r12"), pop("rbx"),
       pop("rbp"), Ret >>

(* The frame AF_ENTER builds, as its code may address it: the return       *)
(* address, then the six registers in the order they were pushed.          *)
Frame == << "[rbp+8]", "[rbp+0]", "[rbp-8]", "[rbp-16]", "[rbp-24]",
            "[rbp-32]", "[rbp-40]" >>
-----------------------------------------------------------------------------
(* The registers a name stands for: one or none.                           *)
canonical(reg) ==
    LET full == IF reg \in DOMAIN ALIASES THEN ALIASES[reg] ELSE reg
    IN  {full} \cap CALLEE_SAVED

(* A memory operand is no register, whatever register it is based on.      *)
written_callee_saved(body) ==
    UNION {canonical(body[i].ops[1]) :
             i \in {k \in DOMAIN body : /\ body[k].m \in WRITE_FIRST_OPERAND
                                        /\ body[k].ops # <<>>}}

has_expected_prologue(body) == IsPrefix(EXPECTED_PROLOGUE, body)

(* The six instructions before a ret pop the six registers, in any order.  *)
PopsAll(body, i) ==
    /\ i > 6
    /\ \A j \in (i - 6)..(i - 1) : body[j].m = "pop"
    /\ {body[j].ops[1] : j \in (i - 6)..(i - 1)} = CALLEE_SAVED

epilogue_of_some_ret(body) ==
    \E i \in DOMAIN body : body[i].m = "ret" /\ PopsAll(body, i)

epilogue_one_too_far(body) ==
    \A i \in DOMAIN body : body[i].m = "ret" => PopsAll(body, i - 1)

epilogue_is_complete(body) ==
    \A i \in DOMAIN body : body[i].m = "ret" => PopsAll(body, i)
-----------------------------------------------------------------------------
(***************************************************************************)
(* How an export of the assembly stands in the tree and the binary:        *)
(*   "plain"     linked, in a text section, with its code;                 *)
(*   "unlinked"  its module dropped out of the link;                       *)
(*   "bare"      objdump printed no instruction for it;                    *)
(*   "data"      it is no function but an exported data object;            *)
(*   "declared"  a C file declares it at the start of a line;              *)
(*   "exempt"    it is a fixture on the list of exemptions.                *)
(***************************************************************************)
FileWays == {"plain", "unlinked", "bare", "data", "declared", "exempt"}

Bodies == UNION {[1..n -> Blocks] : n \in 1..MaxBlocks}

Instructions == [m : STRING, ops : Seq(STRING)]

(* What an instruction of the machine below writes besides flags and the   *)
(* stack pointer of push and pop: its first operand, xchg both.  movabs,   *)
(* the load of a 64-bit constant, stands for the instructions that write   *)
(* a register and are not on the audit's list.                             *)
Writers == (WRITE_FIRST_OPERAND \ {"pop"}) \cup {"movabs"}
Targets(i) ==
    IF i.m = "xchg" THEN {i.ops[1], i.ops[2]}
                    ELSE IF i.m \in Writers THEN {i.ops[1]} ELSE {}

(* Only jumps and returns have no operand.  "rsp never moves inside a      *)
(* function that uses these macros": push and pop move it, the sub of      *)
(* AF_ENTER and the lea of AF_LEAVE.                                       *)
ASSUME AuditAssumption ==
    /\ Ways \subseteq FileWays
    /\ MaxBlocks \in Nat
    /\ Blocks \subseteq Seq(Instructions)
    /\ \A b \in Blocks : \A i \in DOMAIN b :
         /\ b[i].m \in Writers \cup {"push", "pop", "ret", "jz", "jmp"}
         /\ b[i].ops = <<>> => b[i].m \in {"ret", "jz", "jmp"}
         /\ "rsp" \in Targets(b[i]) => b[i].m = "sub" \/ b[i] = Unwind

VARIABLES way, blocks,      \* the function
          seen, verdict,    \* the audit: functions judged, its outcome
          at, pc,           \* the machine: where control is
          regs, stack       \* callee-saved registers, the stack

vars == <<way, blocks, seen, verdict, at, pc, regs, stack>>

text_symbols      == IF way \in {"unlinked", "data"} THEN {} ELSE {"f"}
assembly_exports  == {"f"}
all_defined_symbols == IF way = "unlinked" THEN {} ELSE {"f"}

(* C_FUNC_RE asks for a name and a parenthesis at the start of a line,     *)
(* which a declaration has as well as a definition.                        *)
c_defined_symbols == IF way = "declared" THEN {"f"} ELSE {}
EXEMPT            == IF way = "exempt" THEN {"f"} ELSE {}

(* The blocks of local labels are folded into the function before them.    *)
parse_functions == IF way \in {"bare", "data"} THEN <<>> ELSE FlattenSeq(blocks)

audit_set == (text_symbols \ c_defined_symbols) \ EXEMPT

Judged == {n \in audit_set : parse_functions # <<>>}

problems ==
    {n \in Judged :
       IF has_expected_prologue(parse_functions)
         THEN ~epilogue_is_complete(parse_functions)
         ELSE written_callee_saved(parse_functions) # {}}

unlinked  == assembly_exports \ all_defined_symbols
uncovered_unreported == {}
uncovered == audit_set \ Judged
-----------------------------------------------------------------------------
(* Values: what the caller left in a register, a stack depth, the return   *)
(* address, anything else.                                                 *)
Callers(r) == <<"callers", r>>
Depth(n)   == <<"depth", n>>
Return     == <<"return", 0>>
Junk       == <<"junk", 0>>

Original == [r \in CALLEE_SAVED |-> Callers(r)]

Init ==
    /\ way \in Ways
    /\ blocks \in Bodies
    /\ seen = {} /\ verdict = "none"
    /\ at = "audit" /\ pc = 1
    /\ regs = Original /\ stack = <<Return>>

audit ==
    /\ verdict = "none"
    /\ seen' = Judged
    /\ verdict' = IF problems \cup unlinked \cup uncovered = {} THEN "ok" ELSE "refused"
    /\ at' = IF verdict' = "ok" /\ way \notin {"unlinked", "data"} THEN "running" ELSE "audit"
    /\ UNCHANGED <<way, blocks, pc, regs, stack>>

(* objdump or nm fails: an AuditError before anything is judged.           *)
ToolFails ==
    /\ verdict = "none"
    /\ verdict' = "refused"
    /\ UNCHANGED <<way, blocks, seen, at, pc, regs, stack>>

Code == FlattenSeq(blocks)
Running(m) == at = "running" /\ pc \in DOMAIN Code /\ Code[pc].m = m
Op == Code[pc].ops

(* What an operand holds; other registers, constants and what is loaded    *)
(* from memory are nothing the caller could want back.                     *)
Value(op) ==
    IF op \in CALLEE_SAVED THEN regs[op]
                           ELSE IF op = "rsp" THEN Depth(Len(stack)) ELSE Junk

(* The place of the stack an operand addresses, if it addresses one: from  *)
(* rbp, where rbp is a frame of this stack, or the innermost.  Any other   *)
(* pointer is taken to point elsewhere.                                    *)
Slot(op) ==
    {n \in DOMAIN stack :
       \/ \E k \in DOMAIN Frame : op = Frame[k] /\ regs["rbp"] = Depth(n + 2 - k)
       \/ op = "[rsp+0]" /\ n = Len(stack)}

Push ==
    /\ Running("push")
    /\ stack' = Append(stack, Value(Op[1]))
    /\ pc' = pc + 1
    /\ UNCHANGED <<way, blocks, seen, verdict, at, regs>>

Pop ==
    /\ Running("pop")
    /\ IF stack = <<>>
         THEN at' = "crashed" /\ UNCHANGED <<pc, regs, stack>>
         ELSE /\ regs' = [r \in CALLEE_SAVED |-> IF r = Op[1] THEN Last(stack) ELSE regs[r]]
              /\ stack' = Front(stack)
              /\ pc' = pc + 1 /\ UNCHANGED at
    /\ UNCHANGED <<way, blocks, seen, verdict>>

(* The lea of AF_LEAVE: rsp is put below the five registers saved under    *)
(* rbp, if rbp is a frame of this stack.                                   *)
Unwinds ==
    /\ Running("lea") /\ Code[pc] = Unwind
    /\ IF regs["rbp"][1] = "depth" /\ regs["rbp"][2] + 5 <= Len(stack)
         THEN /\ stack' = SubSeq(stack, 1, regs["rbp"][2] + 5)
              /\ pc' = pc + 1 /\ UNCHANGED at
         ELSE at' = "crashed" /\ UNCHANGED <<pc, stack>>
    /\ UNCHANGED <<way, blocks, seen, verdict, regs>>

(* Anything else writes a register, whole or in part, makes room on the    *)
(* stack, or stores: into the stack, or elsewhere.                         *)
Given(op) ==
    CASE Code[pc].m = "mov"  -> Value(Op[2])
      [] Code[pc].m = "xchg" -> Value(IF op = Op[1] THEN Op[2] ELSE Op[1])
      [] OTHER               -> Junk

Compute ==
    /\ \E m \in Writers : Running(m)
    /\ Code[pc] # Unwind
    /\ pc' = pc + 1
    /\ LET written == Targets(Code[pc])
       IN  /\ regs' = [r \in CALLEE_SAVED |->
                         IF r \in written THEN Given(r)
                         ELSE IF \E op \in written : r \in canonical(op) THEN Junk
                         ELSE regs[r]]
           /\ stack' = IF "rsp" \in written THEN Append(stack, Junk) ELSE
                         [n \in DOMAIN stack |->
                            IF \E op \in written : n \in Slot(op)
                              THEN Given(CHOOSE op \in written : n \in Slot(op))
                              ELSE stack[n]]
    /\ UNCHANGED <<way, blocks, seen, verdict, at>>

(* The block that holds the instruction, and where the block after the     *)
(* next one begins.                                                        *)
Before(k) == Len(FlattenSeq(SubSeq(blocks, 1, k)))
Here == CHOOSE k \in DOMAIN blocks : Before(k - 1) < pc /\ pc <= Before(k)
Beyond == 1 + Before(IF Here < Len(blocks) THEN Here + 1 ELSE Here)

Jump ==
    /\ Running("jz")
    /\ pc' \in {pc + 1, Beyond}
    /\ UNCHANGED <<way, blocks, seen, verdict, at, regs, stack>>

(* A return to the caller, or to something that is no return address; a    *)
(* tail call leaves the return to another function.                        *)
Returns ==
    /\ Running("ret") \/ Running("jmp")
    /\ at' = IF stack # <<>> /\ Last(stack) = Return THEN "returned" ELSE "crashed"
    /\ UNCHANGED <<way, blocks, seen, verdict, pc, regs, stack>>

RunsOn ==
    /\ at = "running" /\ pc \notin DOMAIN Code
    /\ at' = "crashed"
    /\ UNCHANGED <<way, blocks, seen, verdict, pc, regs, stack>>

Next ==
    \/ audit \/ ToolFails
    \/ Push \/ Pop \/ Unwinds \/ Compute \/ Jump \/ Returns \/ RunsOn

Spec == Init /\ [][Next]_vars
-----------------------------------------------------------------------------
(***************************************************************************)
(* What the audit takes on trust.  Of a function without the prologue: an  *)
(* instruction writes a callee-saved register only as the first operand of *)
(* a listed mnemonic (xchg has a second, movabs is not listed).  Of one    *)
(* with the prologue: it makes room below its frame, stores nothing into   *)
(* the frame and leaves rbp alone; it pops only on its way out; a ret that *)
(* pops all six pops them in the order of AF_LEAVE, which the audit sorts  *)
(* away; a tail call, which the audit does not look at, does so too; and   *)
(* the stack is unwound for that purpose only.                             *)
(***************************************************************************)
Restores(body, e) == e > 6 /\ \A n \in 1..6 : body[e - 7 + n] = AF_LEAVE[n + 1]
Exits(body) == {e \in DOMAIN body : body[e].m \in {"ret", "jmp"}}

LeafOnTrust(body) ==
    \A i \in DOMAIN body : \A op \in Targets(body[i]) :
      canonical(op) # {} => op = body[i].ops[1] /\ body[i].m \in WRITE_FIRST_OPERAND

FrameOnTrust(body) ==
    /\ IsPrefix(AF_ENTER, body)
    /\ \A i \in DOMAIN body :
         /\ i > 8 => \A op \in Targets(body[i]) :
                       op \notin ToSet(Frame) /\ "rbp" \notin canonical(op)
         /\ body[i].m = "pop" => \E e \in Exits(body) : e \in (i + 1)..(i + 6)
         /\ body[i].m = "ret" /\ PopsAll(body, i) => Restores(body, i)
         /\ body[i].m = "jmp" => Restores(body, i)
         /\ body[i] = Unwind => i + 7 \in Exits(body)

OnTrust(body) ==
    IF has_expected_prologue(body) THEN FrameOnTrust(body) ELSE LeafOnTrust(body)

(* What the audit is for: a function it passed, and that deserves what is  *)
(* taken on trust, gives its caller back every callee-saved register, on   *)
(* every path by which it returns.                                         *)
AcceptedPreserves ==
    verdict = "ok" /\ at = "returned" /\ way # "exempt" /\ OnTrust(Code)
      => regs = Original

(* "This script covers all of them": when the audit passes, every exported *)
(* assembly function that is not on the exemption list has been judged.    *)
EveryExportIsAudited ==
    verdict = "ok" /\ way \notin {"exempt", "data"} => assembly_exports \subseteq seen

(* No false alarms: a function that opens with AF_ENTER and leaves only    *)
(* through AF_LEAVE is refused only when it could not be read.             *)
UsesMacros ==
    /\ blocks[1] = AF_ENTER
    /\ \A k \in DOMAIN blocks :
         \A i \in DOMAIN blocks[k] :
           blocks[k][i].m \in {"ret", "jmp"} => blocks[k] = AF_LEAVE

MacroCodeIsAccepted ==
    [][UsesMacros /\ way \in {"plain", "declared"} /\ audit => verdict' = "ok"]_vars
=============================================================================

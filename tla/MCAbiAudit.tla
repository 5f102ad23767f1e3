----------------------------- MODULE MCAbiAudit -----------------------------
(* Functions written with the macros, with the mistakes the audit is there *)
(* to find, and with some it passes.                                       *)
EXTENDS AbiAudit

ForgetsPush == SelectSeq(AF_ENTER, LAMBDA i : i # push("r13"))
ForgetsPop  == SelectSeq(AF_LEAVE, LAMBDA i : i # pop("r13"))
WrongPop    == [AF_LEAVE EXCEPT ![6] = pop("rcx")]
Swapped     == << push("rbx"), I("mov", <<"rbp", "rsp">>), push("rbp") >>
                 \o SubSeq(AF_ENTER, 4, 8)
EarlyReturn == << Ret >>
Writes      == << I("mov", <<"rbx", "rdi">>) >>
Narrow      == << I("xor", <<"r12d", "r12d">>) >>
Local       == << I("mov", <<"[rsp+0]", "rbx">>), I("mov", <<"rax", "r12">>) >>
TailCalls   == Append(Front(AF_LEAVE), I("jmp", <<>>))

\* Passed, and wrong.
Reordered   == [AF_LEAVE EXCEPT ![4] = pop("r12"), ![5] = pop("r13")]
TailReorder == Append(Front(Reordered), I("jmp", <<>>))
IntoFrame   == << I("mov", <<"[rbp-8]", "rax">>) >>
Exchanges   == << I("xchg", <<"rax", "rbx">>) >>
Constant    == << I("movabs", <<"r12", "0x100000000">>) >>

MCBlocks == {AF_ENTER, AF_LEAVE, ForgetsPush, ForgetsPop, WrongPop, Swapped,
             EarlyReturn, Writes, Narrow, Local, TailCalls, Branch,
             Reordered, TailReorder, IntoFrame, Exchanges, Constant}
FewBlocks == {AF_ENTER, AF_LEAVE, EarlyReturn, Writes}
=============================================================================

--------------------------- MODULE MCDisassembly ----------------------------
(* Instances of Disassembly for TLC.  An image chooses one of a few forms   *)
(* for each address, so that instructions overlap, nest, loop, jump into    *)
(* the middle of others and out of the section.                             *)
EXTENDS Disassembly

CONSTANT Targets        \* where a jump may go

Form(len, targets, falls) == [len |-> len, targets |-> targets, falls |-> falls]
Forms ==
    {Bad, Form(1, {}, TRUE), Form(2, {}, TRUE), Form(1, {}, FALSE), Form(3, {1}, TRUE)}
      \cup {Form(2, {t}, FALSE) : t \in Targets} \cup {Form(2, {t}, TRUE) : t \in Targets}

\* Filler decodes as a one-byte instruction that falls through.
MCImages ==
    {img \in [insn : {d \in [Addr -> Forms] : \A a \in Addr : a + d[a].len <= Size},
              pad : {{}, 1 .. 2, {Size - 2, Size - 1}}, seeds : {{}, {0}, {0, 2}}] :
       \A a \in img.pad : img.insn[a] = Form(1, {}, TRUE)}
=============================================================================

---------------------------- MODULE SpecialKernels ----------------------------
(***************************************************************************)
(* What the kernels of the special actors write, as sequences of tokens,   *)
(* with the parameters that the launcher gives them from the rates of the  *)
(* single-rate graph (srdag-helper.cpp).                                   *)
(***************************************************************************)
EXTENDS Integers, SequencesExt

SumOf(numbers) == FoldLeft(LAMBDA a, b : a + b, 0, numbers)

Taken(tokens, offset, size) == SubSeq(tokens, offset + 1, offset + size)

\* rt::fork(): output n starts where the outputs before it end.
Fork(outRates, tokens, n) == Taken(tokens, SumOf(SubSeq(outRates, 1, n - 1)), outRates[n])

\* rt::join()
Join(inputs) == FlattenSeq(inputs)

\* rt::repeat(): the input again and again, and the part that is left.
Repeat(outRate, tokens) ==
    LET size == Len(tokens)
    IN IF size >= outRate
       THEN Taken(tokens, 0, outRate)
       ELSE FlattenSeq([i \in 1 .. outRate \div size |-> tokens])
            \o Taken(tokens, 0, outRate % size)

\* buildTailRuntimeInputParameters() and rt::tail() for one input, which is all
\* the inputs of the tails that the transformation makes: the last tokens.
TailOne(outRate, tokens) == Taken(tokens, Len(tokens) - outRate, outRate)
=============================================================================

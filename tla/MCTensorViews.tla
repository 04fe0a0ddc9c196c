---------------------------- MODULE MCTensorViews ----------------------------
(* Small instances of TensorViews for TLC.                                   *)
EXTENDS TensorViews

\* Two states that differ only in the last call are the same state.
State == <<slot, memory, threw, calls>>

\* Slots are interchangeable.
SlotSymmetry == Permutations(Slots)

Integer(i) == [kind |-> "int", at |-> i]
Range3(start, stop, step) == [kind |-> "slice", start |-> start, stop |-> stop, step |-> step]
None == [kind |-> "none"]
Ellipsis == [kind |-> "ellipsis"]
Everything == Range3(Omitted, Omitted, 1)
Reversed == Range3(Omitted, Omitted, -1)

\* Every kind of argument, legal or not, on views of a 2 x 3 matrix.
ArgumentInputs == [
    vectors |-> {[shape |-> <<2, 3>>, size |-> 6], [shape |-> <<2, 3>>, size |-> 5]},
    dims |-> {0, 1, -1, 3},
    indices |-> {0, -1, 2, -3},
    slices |-> {<<1, 9, 1>>, <<-2, -1, 1>>, <<0, 3, 2>>, <<2, 1, 1>>, <<3, 3, 1>>, <<0, 2, 0>>},
    subscripts |-> {
        <<>>, <<Integer(-1)>>, <<Ellipsis, Integer(1)>>, <<None, Ellipsis, Reversed>>,
        <<Reversed>>, <<Everything, Reversed>>, <<Range3(1, Omitted, 1), Integer(0)>>,
        <<Range3(-1, 0, -1)>>, <<Range3(5, 1, 1), Reversed>>, <<Ellipsis, Range3(Omitted, -4, -2)>>,
        <<Ellipsis, Range3(-5, 9, 2)>>, <<Ellipsis, Range3(0, -1, -1)>>,
        <<Ellipsis, Ellipsis>>, <<Range3(0, 1, 0)>>, <<Integer(0), Integer(0), Integer(0)>>,
        <<Integer(2), Ellipsis, None>>},
    shapes |-> {<<6>>, <<3, -1>>, <<-1>>, <<1, 2, 3>>, <<2, 0>>, <<0, -1>>, <<-1, -1>>, <<-2, 3>>, <<>>},
    permutations |-> {<<1, 0>>, <<-1, 0, 1>>, <<0, 0>>, <<0, 2>>, <<>>},
    counts |-> {0, 1, 2}]
=============================================================================

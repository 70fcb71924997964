------------------------------ MODULE MCAnnexB ------------------------------
\* Every file of at most MaxParts parts: start codes of either length, the
\* first byte of a parameter set and of a slice, and a byte that is zero.
EXTENDS AnnexB

CONSTANT MaxParts   \* bound: parts of a file

Parts == {<<0, 0, 0, 1>>, <<0, 0, 1>>, <<7>>, <<1>>, <<0>>}

MCFiles == {FlattenSeq(parts) : parts \in BoundedSeq(Parts, MaxParts)}
=============================================================================

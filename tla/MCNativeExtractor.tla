------------------------ MODULE MCNativeExtractor ------------------------
\* Every file of at most MaxParts parts, followed by bytes that continue a
\* start code or look like a parameter set.
EXTENDS NativeExtractor, SequencesExt

CONSTANT MaxParts   \* bound: parts of a file

Parts == {<<0, 0, 0, 1>>, <<7>>, <<8>>, <<1>>, <<0>>}

MCFiles == {FlattenSeq(parts) : parts \in BoundedSeq(Parts, MaxParts)} \cup {Missing}

MCHeaps == {<<0, 0, 0, 0, 0>>, <<0, 0, 1, 7, 8>>, <<0, 1, 7, 0, 8>>, <<1, 7, 8, 0, 0>>, <<8, 1, 1, 1, 7>>}
=============================================================================

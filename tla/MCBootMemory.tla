----------------------------- MODULE MCBootMemory -----------------------------
(* BootMemory on nine frames of eight bytes: what boot loaders may leave. *)
EXTENDS BootMemory

Entry(addr, len, type) == [addr |-> addr, len |-> len, type |-> type]

\* Regions below the top of the address space: within a frame, across frames,
\* over the kernel, up to the last byte.
Regions ==
    {Entry(0, 5, 2), Entry(0, 40, 2), Entry(20, 24, 1), Entry(45, 3, 2), Entry(43, 12, 4),
     Entry(48, 8, 3), Entry(56, 16, 2), Entry(71, 1, 2)}

\* Regions above it, available or not, across it, and one without a byte.
HighRegions ==
    {Entry(72, 40, 1), Entry(88, 8, 2), Entry(72, 72, 2), Entry(64, 16, 2), Entry(48, 0, 2)}

Maps ==
    {<<>>} \cup {<<r>> : r \in Regions} \cup {<<r, s>> : r \in Regions, s \in Regions}
    \cup {<<h>> : h \in HighRegions} \cup {<<r, h>> : r \in {Entry(56, 16, 2)}, h \in HighRegions}

\* Low memory is frames 0 and 1.  The kernel ends within frame 3, and one of the
\* structures may be behind it there, or with frame 3; each may also lie where
\* nothing is mapped.
Place(info, list, map) == [info |-> info, list |-> list, map |-> map]
Places(end) ==
    {Place(0, 2, 4), Place(0, 50, 4), Place(50, 2, 4)}
    \cup IF end = 29 THEN {Place(29, 2, 4), Place(0, 30, 4)} ELSE {}

Modules == {<<>>, <<[start |-> 40, end |-> 45]>>,
            <<[start |-> 32, end |-> 48], [start |-> 64, end |-> 71]>>}

Loader(end, place, modules, hasMap, entries) ==
    [kernelEnd |-> end, info |-> place.info, list |-> place.list, map |-> place.map,
     modules |-> modules, hasMap |-> hasMap, entries |-> entries]

MCLoaders ==
    UNION {{Loader(end, place, modules, TRUE, map) :
                place \in Places(end), modules \in Modules, map \in Maps} : end \in {29, 32}}
    \cup {Loader(32, Place(0, 2, 50), <<>>, FALSE, <<>>)}
===============================================================================

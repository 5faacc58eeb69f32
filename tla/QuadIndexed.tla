---------------------------- MODULE QuadIndexed ----------------------------
(***************************************************************************)
(* The compute shader video_core/host_shaders/vulkan_quad_indexed.comp,    *)
(* which turns an index buffer of quads or of a quad strip into one of     *)
(* triangles.  Every invocation handles one primitive and writes six       *)
(* indices; the invocations of a dispatch run in any order, and a step of  *)
(* the model is one iteration of the loop of one invocation.               *)
(***************************************************************************)
EXTENDS Integers, Sequences, FiniteSets, FiniteSetsExt, Bitwise

CONSTANTS
    WordBits,   \* bits of a uint: 32 in the shader
    LocalSize,  \* local_size_x: 1024 in the shader
    Draws       \* the draws: [indices, index_shift, is_strip, base_vertex]

ASSUME WordBits % 4 = 0 /\ LocalSize \in Nat \ {0}

Word == 2^WordBits
Unwritten == -1     \* an element of the output buffer nothing was stored to

VARIABLES
    draw,           \* the push constants and the indices of the draw
    output_indexes, \* the output buffer, element -> value
    vertex,         \* per invocation, the loop variable; 6 when it is over
    faults          \* the accesses made outside a buffer

vars == <<draw, output_indexes, vertex, faults>>

-----------------------------------------------------------------------------
(* The host's side of the dispatch *)

index_size == (WordBits \div 4) * 2^draw.index_shift
flipped_shift == 2 - draw.index_shift
mask == 2^flipped_shift - 1

\* The index buffer as it lies in memory: 2^flipped_shift indices to a
\* word, the first in the low bits.
input_indexes ==
    LET per == 2^flipped_shift
        count == Len(draw.indices)
        Packed(w) == {j \in 0..per - 1 : w * per + j < count}
    IN [w \in 0..(count + per - 1) \div per - 1 |->
           MapThenSumSet(LAMBDA j : draw.indices[w * per + j + 1]
                                       * 2^(j * index_size), Packed(w))]

\* The quads of the draw; the output buffer holds six indices for each.
Primitives ==
    IF draw.is_strip = 0 THEN Len(draw.indices) \div 4
                         ELSE (Len(draw.indices) - 2) \div 2

\* gl_GlobalInvocationID.x over the work groups the host dispatches.
Invocations ==
    0..LocalSize * ((Primitives + LocalSize - 1) \div LocalSize) - 1

bitfieldExtract(value, offset, bits) == (value \div 2^offset) % 2^bits

-----------------------------------------------------------------------------
(* The shader *)

\* Variant: the invocation one past the last primitive goes on.
RunsUpToLength(primitive) == primitive * 6 <= Len(output_indexes)

\* Variant: the test counts the primitive the invocation would end with.
RunsBelowLast(primitive) == (primitive + 1) * 6 < Len(output_indexes)

\* The test main() starts with, negated.
Runs(primitive) == primitive * 6 < Len(output_indexes)

quads_swizzle == <<0, 1, 2, 0, 2, 3>>
quad_strip_swizzle == <<0, 3, 1, 0, 2, 3>>

Offset(primitive) ==
    IF draw.is_strip = 0 THEN primitive * 4 + quads_swizzle[vertex[primitive] + 1]
    ELSE primitive * 2 + quad_strip_swizzle[vertex[primitive] + 1]

\* Variant: the position in the word is counted in indices, not in bits.
IndexOffset(offset) == offset & mask

bit_offset(offset) == (offset & mask) * index_size

\* Variant: the output is laid out as the input, four to a primitive.
InputElement(primitive) == primitive * 4 + vertex[primitive]

\* The element of the output buffer the iteration stores to.
Element(primitive) == primitive * 6 + vertex[primitive]

\* Variant: the sum is not taken in a uint.
Sum(index) == index + draw.base_vertex

Rebase(index) == (index + draw.base_vertex) % Word

Init ==
    /\ draw \in Draws
    /\ output_indexes = [e \in 1..6 * Primitives |-> Unwritten]
    /\ vertex = [g \in Invocations |-> 0]
    /\ faults = {}

\* The early return of an invocation that has no primitive.
Return(g) ==
    /\ vertex[g] = 0
    /\ ~Runs(g)
    /\ vertex' = [vertex EXCEPT ![g] = 6]
    /\ UNCHANGED <<draw, output_indexes, faults>>

\* One iteration of the loop.  A load outside the input buffer gives 0 and
\* a store outside the output buffer is dropped; both are recorded.
StoreIndex(g) ==
    LET int_offset == shiftR(Offset(g), flipped_shift)
        loaded == int_offset \in DOMAIN input_indexes
        packed_input == IF loaded THEN input_indexes[int_offset] ELSE 0
        index == bitfieldExtract(packed_input, bit_offset(Offset(g)), index_size)
        stored == Element(g) + 1 \in DOMAIN output_indexes
    IN /\ Runs(g)
       /\ vertex[g] < 6
       /\ output_indexes' =
              IF stored
              THEN [output_indexes EXCEPT ![Element(g) + 1] = Rebase(index)]
              ELSE output_indexes
       /\ faults' = faults \cup {<<"load", int_offset>> : x \in {loaded} \ {TRUE}}
                           \cup {<<"store", Element(g)>> : x \in {stored} \ {TRUE}}
       /\ vertex' = [vertex EXCEPT ![g] = @ + 1]
       /\ UNCHANGED draw

Next == \E g \in Invocations : Return(g) \/ StoreIndex(g)

\* A dispatch runs every invocation to its end: while one of them has an
\* iteration left, one is taken.
Spec == Init /\ [][Next]_vars /\ WF_vars(Next)

-----------------------------------------------------------------------------
(* Properties *)

\* The buffers hold uints: every element of the output buffer is unwritten
\* or a value of WordBits bits, also when index + base_vertex wraps.
TypeOK ==
    /\ draw \in Draws
    /\ DOMAIN output_indexes = 1..6 * Primitives
    /\ \A e \in DOMAIN output_indexes :
          output_indexes[e] = Unwritten \/ output_indexes[e] \in 0..Word - 1
    /\ vertex \in [Invocations -> 0..6]
    /\ faults \subseteq {"load", "store"} \X Nat

\* No invocation reads or writes outside a buffer: the test on
\* output_indexes.length() stops the invocations the work group size adds,
\* and the last primitive of a list or a strip, of indices of any size,
\* finds all four of its indices in the input buffer.
AccessesInBounds == faults = {}

\* The index the draw has at position k, rebased.
Corner(k) == (draw.indices[k + 1] + draw.base_vertex) % Word

Triangle(p, t) == {output_indexes[6 * p + 3 * t + j] : j \in 1..3}

\* When the dispatch is over, every quad has become two triangles that
\* share a diagonal and cover its four corners: quad p of a list has the
\* indices 4p..4p+3 of the draw, quad p of a strip the indices 2p..2p+3,
\* whatever the size of an index and wherever it lies in its word.
Triangulates ==
    (\A g \in Invocations : vertex[g] = 6) =>
        \A p \in 0..Primitives - 1 :
            LET first == IF draw.is_strip = 0 THEN 4 * p ELSE 2 * p
            IN /\ Triangle(p, 0) \cup Triangle(p, 1)
                      = {Corner(k) : k \in first..first + 3}
               /\ Cardinality(Triangle(p, 0) \cap Triangle(p, 1)) = 2

\* Invocations do not race: no store of any invocation, in any order of
\* the invocations, replaces what another store has written.
StoredOnce ==
    [][\A e \in DOMAIN output_indexes :
          output_indexes[e] # Unwritten => output_indexes'[e] = output_indexes[e]
      ]_output_indexes

\* The dispatch fills the output buffer: every element the host has
\* allotted, six for each quad, is stored to by some invocation before the
\* dispatch is over, so a draw never reads an index nothing has written.
BufferFilled ==
    <>(\A e \in DOMAIN output_indexes : output_indexes[e] # Unwritten)
=============================================================================

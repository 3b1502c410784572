---------------------------- MODULE InternalMem -----------------------------
(* tasarch::gdb::internal_mem: one static vector that all connections        *)
(* allocate from, presented to the GDB client as memory of the target from a *)
(* fixed address on.  It only grows.                                         *)
EXTENDS Coding

CONSTANTS Address,     \* internal_mem::address
          StaticSize,  \* the size of static_buf (0x1000)
          Hacked       \* the text of echo_hacked

ASSUME InternalMemAssumption == /\ Address \in Nat /\ Address < SizeMax
                                /\ StaticSize \in Nat \ {0}
                                /\ Hacked \in Seq(Byte)

VARIABLES storage,
          capacity,    \* of the vector: what it holds without moving
          did_init

memVars == <<storage, capacity, did_init>>

end == Address + Len(storage)

has_addr(addr) == Address <= addr /\ addr < end

get_idx(addr) == addr - Address

\* idx + len is a size_t and may wrap; an address of the memory is assumed.
EndIdx(addr, len) ==
    LET idx == (get_idx(addr) + len) % SizeMax
    IN  IF idx < Len(storage) THEN idx ELSE Len(storage)

\* Mutant of read_data: the end is taken for the last byte.
read_data_short(addr, len) ==
    IF EndIdx(addr, len) < get_idx(addr) THEN Throws("length_error")
    ELSE Decoded(SubSeq(storage, get_idx(addr) + 1, EndIdx(addr, len) - 1), <<>>)

\* A wrapped end lies before the start: the vector's constructor throws.
read_data(addr, len) ==
    IF EndIdx(addr, len) < get_idx(addr) THEN Throws("length_error")
    ELSE Decoded(SubSeq(storage, get_idx(addr) + 1, EndIdx(addr, len)), <<>>)

\* Mutant of Written: one byte more than was asked for.
WrittenOneMore(addr, len, data) ==
    [i \in DOMAIN storage |->
        IF i \in get_idx(addr) + 1 .. EndIdx(addr, len) + 1
        THEN data[((i - get_idx(addr) - 1) % Len(data)) + 1] ELSE storage[i]]

\* What write_data leaves, for a len that does not wrap and as many data.
Written(addr, len, data) ==
    [i \in DOMAIN storage |->
        IF i \in get_idx(addr) + 1 .. EndIdx(addr, len)
        THEN data[i - get_idx(addr)] ELSE storage[i]]

\* vector::insert at the end doubles a vector that is full.
Capacity(size, cap, n) ==
    IF size + n <= cap THEN cap ELSE size + (IF size < n THEN n ELSE size)

Zeros(n) == [i \in 1..n |-> 0]

internal_buf(addr, len) == [address |-> addr, len |-> len]

Grow(bytes) == /\ storage' = storage \o bytes
               /\ capacity' = Capacity(Len(storage), capacity, Len(bytes))

add_data(bytes) == /\ Grow(bytes)
                   /\ UNCHANGED did_init

\* Mutant of reserve: the block is not resized.
reserve_nothing(n) == add_data(<<>>)

reserve(n) == add_data(Zeros(n))

\* add_str inserts twice, and computes the address from an iterator of the
\* first insertion, which is dangling if the second one moved the vector.
WithNul(s) == s \o <<NUL>>

Dangles(s) == LET size == Len(storage) + Len(s)
                  cap  == Capacity(Len(storage), capacity, Len(s))
              IN  Capacity(size, cap, 1) # cap

add_str(s) == /\ storage' = storage \o WithNul(s)
              /\ capacity' = Capacity(Len(storage) + Len(s),
                                      Capacity(Len(storage), capacity, Len(s)), 1)
              /\ UNCHANGED did_init

\* The first connection reserves static_buf and adds echo_hacked.
init == \/ /\ did_init
           /\ UNCHANGED memVars
        \/ /\ ~did_init
           /\ did_init' = TRUE
           /\ storage' = Zeros(StaticSize) \o WithNul(Hacked)
           /\ capacity' = Capacity(StaticSize + Len(Hacked),
                              Capacity(StaticSize, StaticSize, Len(Hacked)), 1)

MemInit == storage = <<>> /\ capacity = 0 /\ did_init = FALSE

MemTypeOK == /\ storage \in Seq(Byte)
             /\ capacity \in Nat /\ Len(storage) <= capacity
             /\ did_init \in BOOLEAN
             /\ ~did_init => storage = <<>>
=============================================================================

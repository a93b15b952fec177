-------------------------------- MODULE Lists --------------------------------
(***************************************************************************)
(* The storage of a serial::List (src/sfc/serial/node.cc): an entry is     *)
(* pushed into a Vec that is rebuilt from the length and from the spare    *)
(* capacity, which has 16 bits (resMod values) only.                       *)
(* This is the arithmetic of the fields alone.  The destructor at the end  *)
(* of each push, at address 0 (Crash of module Json), is not in it.        *)
(***************************************************************************)
EXTENDS Integers

\* The list that has no block: real is the size of the block.
Fresh == [len |-> 0, res |-> 0, real |-> 0]

\* reserve(1, 2, 8) of a vector: it grows by a quarter, to a multiple of 8.
GrownBy(cap, len, align) ==
  IF len + 1 <= cap THEN cap
  ELSE LET more == IF cap \div 4 > 1 THEN cap \div 4 ELSE 1
       IN ((cap + more + align - 1) \div align) * align

\* Faulty form of Stored: the spare capacity is that before the push.
StoredBefore(mem, align, resMod) ==
  LET cap == GrownBy(mem.len + mem.res, mem.len, align)
  IN [len |-> mem.len + 1, res |-> (cap - mem.len) % resMod,
      real |-> IF cap = mem.len + mem.res THEN mem.real ELSE cap]

\* A push: the block is moved when the vector thinks it full; real is its size.
Stored(mem, align, resMod) ==
  LET cap == GrownBy(mem.len + mem.res, mem.len, align)
  IN [len |-> mem.len + 1, res |-> (cap - (mem.len + 1)) % resMod,
      real |-> IF cap = mem.len + mem.res THEN mem.real ELSE cap]
=============================================================================

------------------------------ MODULE HplSizes ------------------------------
(***************************************************************************)
(* What the hpl test puts into HPL.dat: the process grid P x Q             *)
(* (hpl_calc_pq) and the size of the matrix N (hpl_calc_n).  Both are      *)
(* computed each time the test starts, from the number of cores and the    *)
(* memory in KB that dump_stats wrote.                                     *)
(***************************************************************************)
EXTENDS Integers

CONSTANTS
  Cores,    \* numbers of cores
  Memory,   \* sizes of memory
  Reserve,  \* MEM_RESERVE, in KB
  Unit,     \* bytes in a KB
  Percent,  \* MEM_PERCENT, as it is written
  Step,     \* 192, of which N is a multiple
  Width,    \* 2^64
  Factor,   \* MEM_PERCENT is the double Factor / Scale
  Scale,
  Digits,   \* 2^53: a double is a number up to this times a power of 2
  Powers    \* the powers of 2 that occur

ASSUME CoresAssumption == Cores \subseteq Nat \ {0}
ASSUME MemoryAssumption ==
  /\ Memory \subseteq 0..(Width - 1)
  /\ Reserve \in Nat /\ Unit \in Nat \ {0} /\ Percent \in 0..100
  /\ Step \in Nat \ {0} /\ Width \in Nat \ {0}
  /\ \A kb \in Memory : kb * Unit < Width
\* The precision suffices for the percentage to be met within 1.
ASSUME DoubleAssumption ==
  /\ Factor \in Nat \ {0} /\ Scale \in Nat \ {0} /\ Digits \in Nat \ (0..2)
  /\ Powers \subseteq Nat \ {0} /\ 1 \in Powers
  /\ \A u \in Powers \ {1} : \E v \in Powers : u = 2 * v
  /\ \E u \in Powers : Digits * u >= 2 * Width * Factor
  /\ 100 * (Digits + 3) * Factor <= (Percent + 1) * Digits * Scale
  /\ 100 * (Digits - 3) * Factor >= (Percent - 1) * Digits * Scale

VARIABLES
  cores, ram,  \* the arguments
  p,           \* the loop variable of hpl_calc_pq, 0 when the test is not at it
  grid,        \* P and Q, once they are printed
  size         \* N

hplvars == <<cores, ram, p, grid, size>>

HplInit == cores = 1 /\ ram = 0 /\ p = 0 /\ grid = [P |-> 1, Q |-> 1] /\ size = 0

\* ceil(sqrt(n)) is this k.
CeilSqrt(k, n) == k * k >= n /\ (k = 0 \/ (k - 1) * (k - 1) < n)

\* (long int) sqrtl(x) is this k.
FloorSqrt(k, x) == k * k <= x /\ (k + 1) * (k + 1) > x

\* What a double can hold for n, when u is the distance of two doubles there: the
\* nearer one, of two that are equally near the even one.
Nearest(n, u) ==
  IF 2 * (n % u) < u \/ (2 * (n % u) = u /\ (n \div u) % 2 = 0)
  THEN (n \div u) * u
  ELSE (n \div u + 1) * u

Distance(n) == CHOOSE u \in Powers : n <= Digits * u /\ \A v \in Powers : n <= Digits * v => u <= v

Double(n) == Nearest(n, Distance(n))

\* The memory above the reserve, of unsigned long long.
Above(kb) == (((kb - Reserve) % Width) * Unit) % Width

\* Converted to double, multiplied by MEM_PERCENT, and back to a whole number.
Bytes(kb) == Double(Double(Above(kb)) * Factor) \div Scale

\* Mutant: the division by 8 is left out.
BytesForNumbers(kb) == Bytes(kb)

\* An element of the matrix has 8 bytes.
Numbers(kb) == Bytes(kb) \div 8

Start ==
  /\ p = 0
  /\ ram' \in Memory
  /\ \E root \in 0..Numbers(ram') :
       FloorSqrt(root, Numbers(ram')) /\ size' = (root \div Step) * Step
  /\ cores' \in Cores
  /\ p' \in {k \in 0..cores' : CeilSqrt(k, cores')}
  /\ UNCHANGED grid

\* Mutant: the search stops at the root of the number.
AnyNumber == TRUE

Divides == p <= 1 \/ cores % p = 0

Down ==
  /\ p # 0 /\ ~Divides
  /\ p' = p - 1
  /\ UNCHANGED <<cores, ram, grid, size>>

\* "always make Q bigger than P"
PrintGrid ==
  /\ p # 0 /\ Divides
  /\ LET q == cores \div p
     IN  grid' = IF p > q THEN [P |-> q, Q |-> p] ELSE [P |-> p, Q |-> q]
  /\ p' = 0
  /\ UNCHANGED <<cores, ram, size>>

HplNext == Start \/ Down \/ PrintGrid

HplSpec == HplInit /\ [][HplNext]_hplvars

-----------------------------------------------------------------------------
\* mpirun starts as many processes as the grid has places; the grid is not higher
\* than wide, and no other grid of all the cores is nearer to a square.
GridOfAllCores ==
  p = 0 =>
    /\ grid.P * grid.Q = cores /\ grid.P <= grid.Q
    /\ \A d \in (grid.P + 1)..(grid.Q - 1) : cores % d # 0

\* On a machine that has more than the reserve, the matrix takes the share of the
\* rest that was aimed at, within one percent: it is not larger, and a matrix that
\* is larger by a step is not smaller.
MatrixFits ==
  ram >= Reserve =>
    LET above == (ram - Reserve) * Unit
    IN  /\ 100 * (8 * size * size) <= (Percent + 1) * above
        /\ 100 * (8 * (size + Step) * (size + Step)) > (Percent - 1) * above
=============================================================================

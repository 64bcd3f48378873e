----------------------- MODULE FindBurninTestsProofs -----------------------
(***************************************************************************)
(* Proofs about FindBurninTests for any directory and any -t option.       *)
(***************************************************************************)
EXTENDS FindBurninTests, FiniteSetTheorems, TLAPS

\* The table has none of the names the string still has: each was compared with
\* all tokens of a string that has only got shorter since.
Apart ==
  /\ dir \in Seq(Names) /\ pos \in Nat \ {0}
  /\ breakin_disable \in Seq(Names)
  /\ burnin_scripts \in Seq(Names)
  /\ ToSet(breakin_disable) \cap ToSet(burnin_scripts) = {}

LEMMA InitApart == Init => Apart
<1> SUFFICES ASSUME Init PROVE Apart
  OBVIOUS
<1>1. dir \in Seq(Names)
  <2>1. Cardinality(Names) \in Nat
    BY NamesAssumption, FS_CardinalityType
  <2> QED
    BY <2>1 DEF Init, Orders
<1>2. breakin_disable \in Seq(Names)
  BY DEF Init, Options
<1>3. burnin_scripts = <<>> /\ ToSet(burnin_scripts) = {}
  BY DEF Init, ToSet
<1>4. pos = 1
  BY DEF Init
<1> QED
  BY <1>1, <1>2, <1>3, <1>4 DEF Apart

\* An entry shortens the string and adds at most a name that is not in it.
LEMMA EntryApart == Apart /\ Entry => Apart'
<1> SUFFICES ASSUME Apart, Entry PROVE Apart'
  OBVIOUS
<1>1. dir' = dir /\ dir \in Seq(Names) /\ pos \in 1..Len(dir) /\ pos' \in Nat \ {0}
  BY DEF Apart, Entry
<1>2. breakin_disable' \in Seq(Names) /\ ToSet(breakin_disable') \subseteq ToSet(breakin_disable)
  BY DEF Apart, Entry, Cut, ToSet
<1>3. CASE burnin_scripts' = burnin_scripts
  BY <1>1, <1>2, <1>3 DEF Apart
<1>4. CASE burnin_scripts' # burnin_scripts
  <2>1. burnin_scripts' = Append(burnin_scripts, dir[pos]) /\ dir[pos] \notin ToSet(breakin_disable)
    BY <1>4 DEF Entry, Matches
  <2>2. burnin_scripts \in Seq(Names) /\ dir[pos] \in Names
    BY <1>1 DEF Apart
  <2>3. burnin_scripts' \in Seq(Names) /\ ToSet(burnin_scripts') = ToSet(burnin_scripts) \cup {dir[pos]}
    BY <2>1, <2>2 DEF ToSet
  <2> QED
    BY <1>1, <1>2, <2>1, <2>3 DEF Apart
<1> QED
  BY <1>3, <1>4

LEMMA NextApart == Apart /\ [Next]_vars => Apart'
<1>1. Apart /\ (Report \/ UNCHANGED vars) => Apart'
  BY DEF Apart, Report, vars
<1> QED
  BY <1>1, EntryApart DEF Next

\* Whatever is in the directory, in whatever order, and whatever the option says:
\* no test is run that the log names as disabled (find_burnin_tests and main).
THEOREM ToldStaysOutAlways == Spec => []ToldStaysOut
<1>1. Apart => ToldStaysOut
  BY DEF Apart, ToldStaysOut
<1> QED
  BY InitApart, NextApart, <1>1, PTL DEF Spec

-----------------------------------------------------------------------------
\* The scan so far: nothing that was not asked for is missing, and a name that is
\* appended comes from behind all those that are there.
ScanSoFar ==
  /\ ToSet(breakin_disable) \subseteq ToSet(asked)
  /\ \A k \in DOMAIN burnin_scripts : \E n \in 1..(pos - 1) : dir[n] = burnin_scripts[k]
  /\ OnlyAskedLeftOut

LEMMA InitScan == Init => ScanSoFar
<1> SUFFICES ASSUME Init PROVE ScanSoFar
  OBVIOUS
<1>1. burnin_scripts = <<>> /\ pos = 1 /\ breakin_disable = asked
  BY DEF Init
<1>2. DOMAIN burnin_scripts = {} /\ 1..(pos - 1) = {}
  BY <1>1
<1> QED
  BY <1>1, <1>2 DEF ScanSoFar, OnlyAskedLeftOut

LEMMA EntryScan == Apart /\ ScanSoFar /\ Entry => ScanSoFar'
<1> SUFFICES ASSUME Apart, ScanSoFar, Entry PROVE ScanSoFar'
  OBVIOUS
<1>1. /\ dir \in Seq(Names) /\ pos \in 1..Len(dir) /\ pos \in Nat /\ pos' = pos + 1
      /\ UNCHANGED <<dir, asked>>
  BY DEF Apart, Entry
<1>2. ToSet(breakin_disable') \subseteq ToSet(asked)
  <2>1. ToSet(breakin_disable') \subseteq ToSet(breakin_disable)
    BY DEF Apart, Entry, Cut, ToSet
  <2> QED
    BY <2>1 DEF ScanSoFar
<1>3. 1..(pos' - 1) = 1..(pos - 1) \cup {pos}
  BY <1>1
<1>4. CASE ~ Matches(dir[pos]) /\ Visible(dir[pos])
  <2>1. burnin_scripts' = Append(burnin_scripts, dir[pos])
    BY <1>4 DEF Entry
  <2> DEFINE new == Len(burnin_scripts) + 1
  <2>2. /\ burnin_scripts \in Seq(Names) /\ Len(burnin_scripts) \in Nat
        /\ DOMAIN burnin_scripts = 1..Len(burnin_scripts)
        /\ DOMAIN burnin_scripts' = 1..new
        /\ burnin_scripts'[new] = dir[pos]
        /\ \A k \in 1..Len(burnin_scripts) : burnin_scripts'[k] = burnin_scripts[k]
    BY <1>1, <2>1 DEF Apart
  <2>3. ToSet(burnin_scripts') = ToSet(burnin_scripts) \cup {dir[pos]}
    BY <2>2 DEF ToSet
  <2>4. ASSUME NEW k \in DOMAIN burnin_scripts'
        PROVE  \E n \in 1..(pos' - 1) : dir[n] = burnin_scripts'[k]
    <3>1. CASE k = new
      BY <1>3, <2>2, <3>1
    <3>2. CASE k # new
      <4>1. k \in 1..Len(burnin_scripts)
        BY <2>2, <3>2
      <4> QED
        BY <1>3, <2>2, <4>1 DEF ScanSoFar
    <3> QED
      BY <3>1, <3>2
  <2>5. \A n \in 1..(pos' - 1) :
          dir[n] \notin ToSet(asked) \cup Hidden => dir[n] \in ToSet(burnin_scripts')
    BY <1>3, <2>3 DEF ScanSoFar, OnlyAskedLeftOut
  <2>6. ASSUME NEW j \in DOMAIN burnin_scripts', NEW k \in DOMAIN burnin_scripts', j < k
        PROVE  \E m, n \in 1..(pos' - 1) :
                 m < n /\ dir[m] = burnin_scripts'[j] /\ dir[n] = burnin_scripts'[k]
    <3>1. j \in 1..Len(burnin_scripts)
      BY <2>2, <2>6
    <3>2. CASE k = new
      <4>1. PICK m \in 1..(pos - 1) : dir[m] = burnin_scripts[j]
        BY <2>2, <3>1 DEF ScanSoFar
      <4>2. m < pos /\ m \in 1..(pos' - 1) /\ pos \in 1..(pos' - 1)
        BY <1>1
      <4> QED
        BY <2>2, <3>1, <3>2, <4>1, <4>2
    <3>3. CASE k # new
      <4>1. k \in 1..Len(burnin_scripts)
        BY <2>2, <3>3
      <4>2. PICK m \in 1..(pos - 1), n \in 1..(pos - 1) :
              m < n /\ dir[m] = burnin_scripts[j] /\ dir[n] = burnin_scripts[k]
        BY <2>2, <2>6, <3>1, <4>1 DEF ScanSoFar, OnlyAskedLeftOut
      <4> QED
        BY <1>3, <2>2, <3>1, <4>1, <4>2
    <3> QED
      BY <3>2, <3>3
  <2> QED
    BY <1>1, <1>2, <2>4, <2>5, <2>6 DEF ScanSoFar, OnlyAskedLeftOut
<1>5. CASE ~ (~ Matches(dir[pos]) /\ Visible(dir[pos]))
  <2>1. burnin_scripts' = burnin_scripts
    BY <1>5 DEF Entry
  <2>2. dir[pos] \in ToSet(asked) \cup Hidden
    BY <1>1, <1>5 DEF Matches, Visible, ScanSoFar
  <2>3. \A n \in 1..(pos - 1) : n \in 1..(pos' - 1)
    BY <1>3
  <2>4. \A n \in 1..(pos' - 1) :
          dir[n] \notin ToSet(asked) \cup Hidden => dir[n] \in ToSet(burnin_scripts)
    BY <1>3, <2>2 DEF ScanSoFar, OnlyAskedLeftOut
  <2>5. \A k \in DOMAIN burnin_scripts : \E n \in 1..(pos' - 1) : dir[n] = burnin_scripts[k]
    BY <2>3 DEF ScanSoFar
  <2>6. \A j, k \in DOMAIN burnin_scripts : j < k =>
          \E m, n \in 1..(pos' - 1) :
            m < n /\ dir[m] = burnin_scripts[j] /\ dir[n] = burnin_scripts[k]
    BY <2>3 DEF ScanSoFar, OnlyAskedLeftOut
  <2> QED
    BY <1>1, <1>2, <2>1, <2>4, <2>5, <2>6 DEF ScanSoFar, OnlyAskedLeftOut
<1> QED
  BY <1>4, <1>5

\* Whatever the scans have done to the string of the option, every test that
\* nobody asked to disable is in the table, in the order of the directory
\* (find_burnin_tests).
THEOREM OnlyAskedLeftOutAlways == Spec => []OnlyAskedLeftOut
<1>1. Apart /\ ScanSoFar /\ [Next]_vars => ScanSoFar'
  <2>1. ScanSoFar /\ (Report \/ UNCHANGED vars) => ScanSoFar'
    BY DEF ScanSoFar, OnlyAskedLeftOut, Report, vars
  <2> QED
    BY <2>1, EntryScan DEF Next
<1>2. ScanSoFar => OnlyAskedLeftOut
  BY DEF ScanSoFar
<1> QED
  BY InitApart, NextApart, InitScan, <1>1, <1>2, PTL DEF Spec
=============================================================================

--------------------------- MODULE FindBurninTests ---------------------------
(***************************************************************************)
(* find_burnin_tests of breakin.c: the directory of tests is read once and *)
(* every entry that is neither hidden nor named in breakin_disable becomes *)
(* an element of burnin_scripts, the table that BurninLoop runs.  For each *)
(* entry breakin_disable is taken apart again by strtok_r, which writes    *)
(* into it: the comma after the first token becomes the end of the string. *)
(***************************************************************************)
EXTENDS Naturals, Sequences, SequencesExt

CONSTANTS
  Names,     \* file names in the directory
  Hidden,    \* those that begin with a dot
  MaxAsked   \* bound: names in the -t option

ASSUME NamesAssumption == IsFiniteSet(Names) /\ Hidden \subseteq Names

VARIABLES
  dir,              \* the entries in the order of readdir
  asked,            \* the -t option as it was given
  breakin_disable,  \* the tokens the string still has
  pos,              \* the entry readdir returns next
  burnin_scripts,   \* the names in the table
  told              \* main has logged breakin_disable

vars == <<dir, asked, breakin_disable, pos, burnin_scripts, told>>

Orders == {d \in [1..Cardinality(Names) -> Names] : IsInjective(d)}
Options == UNION {[1..n -> Names] : n \in 0..MaxAsked}

Init ==
  /\ dir \in Orders
  /\ asked \in Options
  /\ breakin_disable = asked
  /\ pos = 1
  /\ burnin_scripts = <<>>
  /\ told = FALSE

\* Mutant: strcmp without "== 0".
MatchesOther(name) == \E token \in ToSet(breakin_disable) : token # name

\* Mutant: only the last token counts.
MatchesLast(name) == breakin_disable # <<>> /\ name = Last(breakin_disable)

\* strcmp with each token in turn.
Matches(name) == name \in ToSet(breakin_disable)

\* What the scan for one entry leaves of the string: its first token.
Cut == breakin_disable' =
  IF breakin_disable = <<>> THEN <<>> ELSE <<Head(breakin_disable)>>

Visible(name) == name \notin Hidden

Entry ==
  /\ pos <= Len(dir)
  /\ Cut
  /\ pos' = pos + 1
  /\ burnin_scripts' = IF ~Matches(dir[pos]) /\ Visible(dir[pos])
                       THEN Append(burnin_scripts, dir[pos]) ELSE burnin_scripts
  /\ UNCHANGED <<dir, asked, told>>

\* The directory is closed; later main logs what it was asked to disable.
Report ==
  /\ pos > Len(dir) /\ ~told
  /\ told' = TRUE
  /\ UNCHANGED <<dir, asked, breakin_disable, pos, burnin_scripts>>

Next == Entry \/ Report

Spec == Init /\ [][Next]_vars

-----------------------------------------------------------------------------
\* Every test that nobody asked to disable is in the table, once and in the
\* order of the directory, whatever the scans have done to the string.
OnlyAskedLeftOut ==
  /\ \A n \in 1..(pos - 1) :
       dir[n] \notin ToSet(asked) \cup Hidden => dir[n] \in ToSet(burnin_scripts)
  /\ \A j, k \in DOMAIN burnin_scripts : j < k =>
       \E m, n \in 1..(pos - 1) :
         m < n /\ dir[m] = burnin_scripts[j] /\ dir[n] = burnin_scripts[k]

\* What the log says was disabled is not run.
ToldStaysOut == told => ToSet(breakin_disable) \cap ToSet(burnin_scripts) = {}

\* "-t, --disable_test=test1,test2: Comma seperated lists of tests to not run":
\* no test of the list is run.
AskedStaysOut == told => ToSet(asked) \cap ToSet(burnin_scripts) = {}
==============================================================================

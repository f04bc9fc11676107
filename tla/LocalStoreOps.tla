---------------------------- MODULE LocalStoreOps ----------------------------
(***************************************************************************)
(* The parameters, values and pure operations of the device-local store    *)
(* (tr181api.cpp): what a lookup returns, what a set and a clear compute.  *)
(* A parameter name is a sequence of pieces of text; a dot is a piece.     *)
(***************************************************************************)
EXTENDS Naturals, Sequences

CONSTANTS
  Callers,   \* processes that use libtr181api
  Keys,      \* parameter names
  Values,    \* non-empty parameter values
  Empty,     \* the empty value: a line "key=" of an ini file
  Absent,    \* no line for the key
  Cuts,      \* Cuts[v]: what a line with value v reads as when its end is missing
  Targets,   \* what clearLocalParam may be called with
  Defaults   \* Defaults[c][k]: /etc/rfcdefaults/<callerID>.ini of caller c

Cells == Values \cup {Empty, Absent}

Stores == [Keys -> Cells]

ASSUME SentinelsAssumption == Empty \notin Values /\ Absent \notin Values /\ Empty # Absent
ASSUME CutsAssumption == Cuts \in [Values -> SUBSET (Values \cup {Empty})]
ASSUME TargetsAssumption == \A t \in Targets : t \in Seq(STRING) /\ t # <<>>
ASSUME DefaultsAssumption == Defaults \in [Callers -> Stores]

Operations ==
  [kind : {"get"}, key : Keys]
    \cup [kind : {"set"}, key : Keys, value : Values \cup {Empty}]
    \cup [kind : {"clear"}, target : Targets]

NoOperation == [kind |-> "none"]

Codes == {"tr181Success", "tr181Failure", "tr181ValueIsEmpty"}

Outcome(code, value) == [code |-> code, value |-> value]

NoResult == [code |-> "none", value |-> Absent]

Outcomes == [code : Codes, value : Values \cup {Absent}] \cup {NoResult}

(***************************************************************************)
(* Lookup.                                                                 *)
(***************************************************************************)

\* getValue: the first line of the key, unless its value is empty.
GetValue(ini, k) ==
  CASE ini[k] \in Values -> Outcome("tr181Success", ini[k])
    [] ini[k] = Empty    -> Outcome("tr181ValueIsEmpty", Absent)
    [] OTHER             -> Outcome("tr181Failure", Absent)

\* The lookup of getLocalParam: the local store, then the caller's defaults.
\* A caller without an ID has no defaults file.
LocalValue(ini, c, k) ==
  IF GetValue(ini, k).code = "tr181Success"
    THEN GetValue(ini, k)
    ELSE GetValue(Defaults[c], k)

(***************************************************************************)
(* Update.                                                                 *)
(***************************************************************************)

\* key.find(value): t occurs anywhere in k, in the middle of a word too.
Contains(k, t) ==
  \E i \in 1..(Len(k) - Len(t) + 1) : SubSeq(k, i, i + Len(t) - 1) = t

\* clearLocalParam matches a name exactly, or a name that ends with a dot
\* anywhere inside the key.
Matches(k, t) == k = t \/ (t[Len(t)] = "." /\ Contains(k, t))

Cleared(ini, t) == {k \in Keys : ini[k] # Absent /\ Matches(k, t)}

\* The dictionary setValue writes back.
Updated(ini, o) ==
  IF o.kind = "clear"
    THEN [k \in Keys |-> IF k \in Cleared(ini, o.target) THEN Absent ELSE ini[k]]
    ELSE [ini EXCEPT ![o.key] = o.value]

\* The keys a store has a line for.
Lines(ini) == {k \in Keys : ini[k] # Absent}

\* What the line of a cell reads as when it was cut inside its value (cut
\* inside the name, or before the "=", it is no line of the key).
Cut(cell) == IF cell \in Values THEN Cuts[cell] ELSE {}

\* The stores a rewrite of ini may leave when it stops anywhere: some of the
\* lines, and at most one that is cut.
Remnants(ini) ==
  {f \in Stores :
     /\ \A k \in Keys : f[k] \in {ini[k], Absent} \cup Cut(ini[k])
     /\ \A j, k \in Keys : f[j] \notin {ini[j], Absent} /\ f[k] \notin {ini[k], Absent} => j = k}
=============================================================================

-------------------------------- MODULE LinkMap --------------------------------
(***************************************************************************)
(* What a virtual file tree promises its callers: a case-insensitive map   *)
(* from keys to real paths.  Deleted marks, spellings, item types and      *)
(* parents are invisible here; what is left is which keys can be found,    *)
(* where they lead, and which of them a call may touch.                    *)
(***************************************************************************)
EXTENDS Naturals, Sequences

CONSTANTS
  Keys,    \* the keys callers use
  Real     \* real paths

VARIABLES
  links,   \* key -> real path, for the keys that can be found
  other,   \* the map that will be laid over links
  last     \* the last call and what it returned

vars == <<links, other, last>>

Below(k, q) == Len(k) =< Len(q) /\ \A i \in 1..Len(k) : q[i] = k[i]
Bind(m, k, r) == [q \in DOMAIN m \cup {k} |-> IF q = k THEN r ELSE m[q]]
Without(m, S) == [q \in DOMAIN m \ S |-> m[q]]

Reply(call, k, err) == last' = [call |-> call, key |-> k, err |-> err]

Init ==
  /\ links \in [{<<>>} -> Real]
  /\ other \in [{<<>>} -> Real]
  /\ last = [call |-> "none", key |-> <<>>, err |-> "ok"]

\* An added key is found afterwards; no other key changes.
Add(k, r) ==
  /\ k # <<>>
  /\ links' = Bind(links, k, r)
  /\ Reply("add", k, "ok")
  /\ UNCHANGED other

\* A refused add changes nothing; "EEXIST" is said of keys that are there.
AddRefused(k, err) ==
  /\ err = "EEXIST" => k \in DOMAIN links
  /\ Reply("add", k, err)
  /\ UNCHANGED <<links, other>>

\* After an erase nothing at or below the key is found.
Erase(k) ==
  /\ k # <<>>
  /\ links' = Without(links, {q \in DOMAIN links : Below(k, q)})
  /\ Reply("erase", k, "ok")
  /\ UNCHANGED other

\* A refused erase changes nothing; "ENOENT" is said of keys that cannot be
\* found, and of the root.
EraseRefused(k, err) ==
  /\ err = "ENOENT" => k = <<>> \/ k \notin DOMAIN links
  /\ Reply("erase", k, err)
  /\ UNCHANGED <<links, other>>

\* One item is hidden, or shown again.
Hide(k) ==
  /\ k # <<>>
  /\ links' = Without(links, {k})
  /\ Reply("hide", k, "ok")
  /\ UNCHANGED other

Show(k, r) ==
  /\ k # <<>>
  /\ links' = Bind(links, k, r)
  /\ Reply("show", k, "ok")
  /\ UNCHANGED other

\* A key gets another spelling, which the map does not show.
Spell(k) ==
  /\ k # <<>>
  /\ Reply("name", k, "ok")
  /\ UNCHANGED <<links, other>>

\* The other map is filled, then laid over this one: every key of it that can
\* be found leads where it says, no key of this map is lost, none is invented.
Fill(k, r) ==
  /\ k # <<>>
  /\ other' = Bind(other, k, r)
  /\ Reply("fill", k, "ok")
  /\ UNCHANGED links

Overlay(r) ==
  /\ \E D \in SUBSET DOMAIN other :
       links' = [q \in DOMAIN links \cup D |->
                   IF q \in DOMAIN other THEN other[q] ELSE links[q]]
  /\ other' = [q \in {<<>>} |-> r]
  /\ Reply("merge", <<>>, "ok")

Next ==
  \/ \E k \in Keys, r \in Real : Add(k, r) \/ Show(k, r) \/ Fill(k, r)
  \/ \E k \in Keys, err \in {"EINVAL", "ENOENT", "EEXIST"} : AddRefused(k, err)
  \/ \E k \in Keys : Erase(k) \/ Hide(k) \/ Spell(k)
  \/ \E k \in Keys, err \in {"ENOENT", "ENOTEMPTY"} : EraseRefused(k, err)
  \/ \E r \in Real : Overlay(r)

Spec == Init /\ [][Next]_vars
=============================================================================

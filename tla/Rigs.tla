-------------------------------- MODULE Rigs --------------------------------
(***************************************************************************)
(* What a rig must say to be one.  A rig is checked when it is read, when  *)
(* it is written and when it has been lifted out of a preset; what fails   *)
(* the check goes no further.                                              *)
(*                                                                         *)
(* The rules are the schema's, over the fields the other modules look      *)
(* into.  Words and names are data; only one of nothing but spaces is told *)
(* apart from the rest.                                                    *)
(***************************************************************************)
EXTENDS Chains

CONSTANTS
  Trimmed  \* the names with spaces around them, and what they say without

\* What is left has no spaces around it, and nor have the stand-ins for a name.
ASSUME TrimmedAssumption ==
  /\ \A name \in DOMAIN Trimmed : Trimmed[name] \notin DOMAIN Trimmed
  /\ {"Untitled", "recorded"} \cap DOMAIN Trimmed = {}

Instruments == {"guitar", "bass"}
Roles ==
  {"amp", "cab", "drive", "comp", "gate", "eq", "mod", "delay", "reverb",
   "wah", "pitch", "filter", "utility", "other"}
\* They are deliberately the catalog's own words.
ASSUME RolesAssumption == \A m \in Models : Block(m).category \in Roles
Attacks == {"pick", "fingers", "slap", "thumb", "hybrid"}

\* A control, in halves of a turn.
KnobTurns == 0 .. 2

TrimSpace(name) == IF name \in DOMAIN Trimmed THEN Trimmed[name] ELSE name
Says(name) == TrimSpace(name) # ""

ValidSettings(said) ==
  /\ DOMAIN said \subseteq DOMAIN KnobWords
  /\ \A word \in DOMAIN said : said[word] \in KnobTurns

ValidSubstitute(gear) == gear = "none" \/ Says(gear)

ValidEntry(entry) ==
  /\ entry.role \in Roles
  /\ Says(entry.gear)
  /\ ValidSubstitute(entry.sub)
  /\ ValidSettings(entry.settings)

ValidTerm(heard) == Says(heard.term)

ValidTechnique(attack) == attack = "none" \/ attack \in Attacks

ValidController(c) == c.number >= 0

ValidFootswitch(fs) == fs.switch >= 1

ValidSection(section) ==
  /\ Says(section.name)
  /\ section.play \cup section.bypass \subseteq Roles

\* A rig holds at least one piece of gear.
ValidRig(rig) ==
  /\ Says(rig.name)
  /\ rig.instrument \in Instruments
  /\ rig.chain # <<>>
  /\ \A i \in DOMAIN rig.chain : ValidEntry(rig.chain[i])
  /\ \A i \in DOMAIN rig.terms : ValidTerm(rig.terms[i])
  /\ ValidTechnique(rig.technique)
  /\ \A i \in DOMAIN rig.controllers : ValidController(rig.controllers[i])
  /\ \A i \in DOMAIN rig.switches : ValidFootswitch(rig.switches[i])
  /\ \A i \in DOMAIN rig.sections : ValidSection(rig.sections[i])
=============================================================================

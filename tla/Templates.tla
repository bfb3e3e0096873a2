----------------------------- MODULE Templates -----------------------------
(***************************************************************************)
(* The template files: what cli.py's _load does before every command.      *)
(* Config reads vmocs.yaml, then TemplateConfig.load reads the site's      *)
(* templates.yaml and the user's ~/.vmocs/templates.yaml into ONE mapping, *)
(* each file entry by entry, and validates every template of the mapping   *)
(* after each file.  A setting is looked up lazily, when a command asks    *)
(* for it, by walking the cached parents.                                  *)
(*                                                                         *)
(* A template is a record of what the walk can tell apart: its parent, one *)
(* heritable setting (absent, null or set) that stands for all of them,    *)
(* and whether its keys and types are ones the code accepts.  A value is   *)
(* the file and the template that set it.                                  *)
(***************************************************************************)
EXTENDS Naturals, FiniteSets

CONSTANTS Names,     \* template names
          Reserved,  \* those that start with an underscore
          None

ASSUME NamesAssumption ==
  IsFiniteSet(Names) /\ Reserved \subseteq Names /\ None \notin Names

VARIABLES phase,     \* "config", "system", "user", "ready", "shown" or "failed"
          missing,   \* the user's file does not exist
          tpls,      \* the TemplateConfig: a mapping that grows
          inFile,    \* names met so far in the file being read
          parent,    \* the _parent each template cached in validate
          shown      \* what `template show` printed: name and answers

templateVars == <<phase, missing, tpls, inFile, parent, shown>>

Given == {"absent", "null", "set"}

(* The entry of a name in a YAML file.                                     *)
Entries == [inherits : Names \union {None}, heritable : Given,
            known : BOOLEAN,    \* every key is one of TEMPLATE_SETTINGS
            typed : BOOLEAN]    \* network, host-user-identity, ssh-command-style

Template == [entry : Entries, file : {"system", "user"}]
Value    == {"default", "RecursionError"} \union ({"system", "user"} \X Names)

TemplateInit ==
  /\ phase = "config" /\ missing \in BOOLEAN
  /\ tpls = <<>> /\ inFile = {} /\ parent = <<>>
  /\ shown = <<>>

-----------------------------------------------------------------------------
(* Config(path): the file is read, and network and sidecars are mappings.  *)
ReadConfig ==
  /\ phase = "config"
  /\ phase' \in {"system", "failed"}
  /\ UNCHANGED <<missing, tpls, inFile, parent, shown>>

(* load, the file itself: a missing user file is an empty one, and any     *)
(* other failure to read or parse raises before an entry was looked at.    *)
FileFails ==
  /\ phase \in {"system", "user"} /\ inFile = {}
  /\ ~(phase = "user" /\ missing)
  /\ phase' = "failed"
  /\ UNCHANGED <<missing, tpls, inFile, parent, shown>>

(* The mapping with a template of the file being read added.               *)
Added(n, e) == [m \in DOMAIN tpls \union {n} |->
                  IF m = n THEN [entry |-> e, file |-> phase] ELSE tpls[m]]

(* One iteration of load's loop.  A YAML mapping has a name once, so a     *)
(* duplicate is a name of the OTHER file.                                  *)

Rejected(n, e) == n \in Reserved \/ n \in DOMAIN tpls \/ ~e.known

LoadEntryOverrides(n, e) ==        \* mutant: the user's template wins
  /\ phase \in {"system", "user"} /\ n \notin inFile
  /\ ~(phase = "user" /\ missing)
  /\ inFile' = inFile \union {n}
  /\ IF n \in Reserved \/ ~e.known
       THEN phase' = "failed" /\ UNCHANGED tpls
       ELSE tpls' = Added(n, e) /\ UNCHANGED phase
  /\ UNCHANGED <<missing, parent, shown>>

LoadEntry(n, e) ==
  /\ phase \in {"system", "user"} /\ n \notin inFile
  /\ ~(phase = "user" /\ missing)
  /\ inFile' = inFile \union {n}
  /\ IF Rejected(n, e)
       THEN phase' = "failed" /\ UNCHANGED tpls
       ELSE tpls' = Added(n, e) /\ UNCHANGED phase
  /\ UNCHANGED <<missing, parent, shown>>

(* Template.validate, for every template of the mapping: the types, then   *)
(* the parent, looked up in the whole mapping and cached.                  *)
Valid(n) == LET e == tpls[n].entry
            IN  e.typed /\ e.inherits \in DOMAIN tpls \union {None}

Follows(p) == IF p = "system" THEN "user" ELSE "ready"

EndFile ==
  /\ phase \in {"system", "user"}
  /\ IF phase = "user" /\ missing          \* the early return of load
       THEN phase' = "ready" /\ UNCHANGED parent
       ELSE IF \A n \in DOMAIN tpls : Valid(n)
         THEN /\ phase' = Follows(phase)
              /\ parent' = [n \in DOMAIN tpls |->
                              IF tpls[n].entry.inherits \in DOMAIN tpls
                                THEN tpls[n].entry.inherits ELSE None]
         ELSE phase' = "failed" /\ UNCHANGED parent
  /\ inFile' = {}
  /\ UNCHANGED <<missing, tpls, shown>>

-----------------------------------------------------------------------------
(* Template.__getattr__: the template's own setting (null is the default), *)
(* else its parent's.  Every call goes one parent up; after as many calls  *)
(* as there are templates the chain has come round, and Python's stack     *)
(* ends the lookup.                                                        *)
OwnValue(n, given) == IF given = "null" THEN "default" ELSE <<tpls[n].file, n>>

Walk[calls \in 0..Cardinality(Names)] ==
  [n \in DOMAIN parent |->
     LET given == tpls[n].entry.heritable
     IN  IF given # "absent" THEN OwnValue(n, given)
         ELSE IF parent[n] = None THEN "default"
         ELSE IF calls = 0 THEN "RecursionError"
         ELSE Walk[calls - 1][parent[n]]]

GetattrNullInherits(n) ==          \* mutant: null means "not set here"
  IF tpls[n].entry.heritable = "null" /\ parent[n] # None
    THEN Walk[Cardinality(Names)][parent[n]] ELSE Walk[Cardinality(Names)][n]

Getattr(n) == Walk[Cardinality(Names)][n]

(* A command looks the name up and reads settings: `template show` reads   *)
(* all of them, run and launch those they need.  A name that is not there  *)
(* is an error of the command.                                             *)
Show(n) ==
  /\ phase = "ready"
  /\ phase' = IF n \in DOMAIN tpls /\ Getattr(n) # "RecursionError"
                THEN "shown" ELSE "failed"
  /\ shown' = IF n \in DOMAIN tpls
                THEN [name |-> n, value |-> Getattr(n)]
                ELSE <<>>
  /\ UNCHANGED <<missing, tpls, inFile, parent>>

TemplateNext ==
  \/ ReadConfig \/ FileFails \/ EndFile
  \/ \E n \in Names, e \in Entries : LoadEntry(n, e)
  \/ \E n \in Names : Show(n)

TemplateSpec == TemplateInit /\ [][TemplateNext]_templateVars

-----------------------------------------------------------------------------
(* Every variable holds what the code can put there; a parent is cached    *)
(* for a loaded template only.                                             *)
TemplateTypeOK ==
  /\ phase \in {"config", "system", "user", "ready", "shown", "failed"}
  /\ missing \in BOOLEAN
  /\ inFile \subseteq Names
  /\ DOMAIN tpls \subseteq Names \ Reserved /\ \A n \in DOMAIN tpls : tpls[n] \in Template
  /\ DOMAIN parent \subseteq DOMAIN tpls
  /\ \A n \in DOMAIN parent : parent[n] \in DOMAIN tpls \union {None}
  /\ shown = <<>> \/ shown \in [name : Names, value : Value]

(* The templates a lookup that starts at n may consult: n, and the parent  *)
(* the file names for each consulted template that does not mention the    *)
(* setting.  The least such set, whether or not the chain ends.            *)
Mentions(n)  == tpls[n].entry.heritable # "absent"
Consults(n, S) ==
  n \in S /\ \A m \in S : ~Mentions(m) => {tpls[m].entry.inherits} \ {None} \subseteq S
Consulted(n) ==
  CHOOSE S \in SUBSET DOMAIN tpls : Consults(n, S) /\ \A T \in SUBSET S : Consults(n, T) => T = S

(* What the nearest ancestor of n that mentions the setting says of it,    *)
(* null standing for the default.                                          *)
NearestSays(n, value) ==
  LET says == {a \in Consulted(n) : Mentions(a)}
  IN  IF says = {} THEN value = "default"
      ELSE \A a \in says :
             value = IF tpls[a].entry.heritable = "null" THEN "default" ELSE <<tpls[a].file, a>>

(* What a command sees of a heritable setting is what the nearest ancestor *)
(* that mentions it says: the walk of Template.__getattr__ over the        *)
(* parents cached by validate, against the inherits of the files.          *)
ShownIsNearest == phase = "shown" => NearestSays(shown.name, shown.value)

(* A step leaves alone what the site's templates resolve to.               *)
KeepsSite ==
  \A n \in {m \in DOMAIN parent : tpls[m].file = "system"} :
    parent'[n] = parent[n] /\ Getattr(n)' = Getattr(n)

(* What the site's templates say is settled when the site's file has been  *)
(* read: no user file can change what one of them resolves to, through a   *)
(* duplicate name or through a parent of its own.                          *)
SiteTemplatesSettled == [][(phase \in {"user", "ready"}) => KeepsSite]_templateVars

(* What the docstring of Template.validate promises of the check it makes: *)
(* an accepted template inherits from no chain that leads back to itself,  *)
(* so that no lookup recurses without end.                                 *)
AcceptedIsAcyclic ==
  phase \in {"ready", "shown"} =>
    \A n \in DOMAIN tpls : Getattr(n) # "RecursionError"
=============================================================================

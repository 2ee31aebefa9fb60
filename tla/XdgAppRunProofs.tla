-------------------------- MODULE XdgAppRunProofs --------------------------
(***************************************************************************)
(* Proofs about what run gives an app and about the processes it starts:   *)
(* XdgAppContext, for every set of settings, any metadata, any number of   *)
(* commands and any bound on their words; and its helper, XdgAppHelper,    *)
(* for every set of exit statuses, any number of processes the app leaves  *)
(* and any number of kills and stops.                                      *)
(*                                                                         *)
(* Contexts.  The view of a context is one table of all its words.  Every  *)
(* operation on contexts puts words into it or tables over it, and a list  *)
(* of words makes the table of the last ones; a save drops those that its  *)
(* file does not keep.  So each file says what was said, but for these     *)
(* (FilesKeep), and what the sandbox has is what all layers make.          *)
(*                                                                         *)
(* The helper.  Neither of its properties is inductive: what a process     *)
(* exits with depends on what is still in the eventfd, and who keeps the   *)
(* proxy alive on how the descriptors went from the launcher to pid 1.     *)
(***************************************************************************)
EXTENDS XdgAppContext, XdgAppHelper, TLAPS, WellFoundedInduction

-----------------------------------------------------------------------------
(* The words of a context.                                                 *)

\* The settings a context has a word on, and the word.
SpokenOf(c) == {x \in Settings :
  \/ x[1] = "flag" /\ x[2] \in c.valid
  \/ x[1] = "fs" /\ x[2] \in DOMAIN c.fs
  \/ x[1] = "persist" /\ x[2] \in c.persistent
  \/ x[1] = "policy" /\ x[2] \in DOMAIN c.policy
  \/ x[1] = "env" /\ x[2] \in DOMAIN c.env}

WordOf(c, x) ==
  IF x[1] = "flag" THEN IF x[2] \in c.enabled THEN TRUE ELSE FALSE
  ELSE IF x[1] = "fs" THEN c.fs[x[2]]
  ELSE IF x[1] = "persist" THEN TRUE
  ELSE IF x[1] = "policy" THEN c.policy[x[2]]
  ELSE c.env[x[2]]

\* What a context says, as one table: the view that all of its parts make up.
View(c) == [x \in SpokenOf(c) |-> WordOf(c, x)]

\* A context with all of its fields.
Context(c) ==
  /\ ContextType(c)
  /\ c = [enabled |-> c.enabled, valid |-> c.valid, fs |-> c.fs,
          persistent |-> c.persistent, policy |-> c.policy, env |-> c.env]

LEMMA Kinds ==
  ASSUME NEW x \in Settings
  PROVE  /\ x = <<x[1], x[2]>>
         /\ \/ x[1] = "flag" /\ x[2] \in Flags
            \/ x[1] = "fs" /\ x[2] \in Filesystems
            \/ x[1] = "persist" /\ x[2] \in Paths
            \/ x[1] = "policy" /\ x[2] \in BusNames
            \/ x[1] = "env" /\ x[2] \in Vars
BY DEF Settings

LEMMA NewView == Context(xdg_app_context_new) /\ View(xdg_app_context_new) = Nothing
<1>1. Context(xdg_app_context_new)
  BY DEF Context, ContextType, xdg_app_context_new, Nothing
<1>2. SpokenOf(xdg_app_context_new) = {}
  BY DEF SpokenOf, xdg_app_context_new, Nothing
<1>3. View(xdg_app_context_new) = Nothing
  BY <1>2 DEF View, Nothing
<1> QED
  BY <1>1, <1>3

\* An option or a line of a file puts its word into the view.
LEMMA SetWordView ==
  ASSUME NEW c, Context(c), NEW word \in Words
  PROVE  /\ Context(SetWord(c, word))
         /\ View(SetWord(c, word)) = Insert(View(c), word[1], word[2])
<1> DEFINE x == word[1]
           v == word[2]
           d == SetWord(c, word)
<1>1. x \in Settings /\ v \in ValuesOf(x[1])
  BY DEF Words
<1>2. /\ x = <<x[1], x[2]>>
      /\ \/ x[1] = "flag" /\ x[2] \in Flags
         \/ x[1] = "fs" /\ x[2] \in Filesystems
         \/ x[1] = "persist" /\ x[2] \in Paths
         \/ x[1] = "policy" /\ x[2] \in BusNames
         \/ x[1] = "env" /\ x[2] \in Vars
  BY <1>1, Kinds
<1>3. ASSUME Context(d), SpokenOf(d) = SpokenOf(c) \cup {x}, WordOf(d, x) = v,
             \A y \in SpokenOf(c) \ {x} : WordOf(d, y) = WordOf(c, y)
      PROVE  Context(SetWord(c, word)) /\ View(SetWord(c, word)) = Insert(View(c), word[1], word[2])
  <2> HIDE DEF d, x, v
  <2>1. View(d) = [y \in SpokenOf(c) \cup {x} |-> WordOf(d, y)]
    BY <1>3 DEF View
  <2>2. DOMAIN View(c) = SpokenOf(c) /\ \A y \in SpokenOf(c) : View(c)[y] = WordOf(c, y)
    BY DEF View
  <2>3. View(d) = Insert(View(c), x, v)
    BY <1>3, <2>1, <2>2 DEF Insert
  <2> QED
    BY <1>3, <2>3 DEF d, x, v
<1>4. CASE x[1] = "flag"
  <2>1. d = [c EXCEPT !.valid = @ \cup {x[2]},
                      !.enabled = IF v THEN @ \cup {x[2]} ELSE @ \ {x[2]}]
    BY <1>4 DEF SetWord
  <2>2. v \in BOOLEAN /\ x[2] \in Flags
    BY <1>1, <1>2, <1>4 DEF ValuesOf
  <2> HIDE DEF d, x, v
  <2>3. /\ d.valid = c.valid \cup {x[2]}
        /\ d.enabled = IF v THEN c.enabled \cup {x[2]} ELSE c.enabled \ {x[2]}
        /\ d.fs = c.fs /\ d.persistent = c.persistent /\ d.policy = c.policy /\ d.env = c.env
    BY <2>1 DEF Context
  <2>4. Context(d)
    <3>1. ContextType(d)
      BY <2>2, <2>3 DEF Context, ContextType
    <3>2. d = [enabled |-> d.enabled, valid |-> d.valid, fs |-> d.fs,
               persistent |-> d.persistent, policy |-> d.policy, env |-> d.env]
      BY <2>1 DEF Context
    <3> QED
      BY <3>1, <3>2 DEF Context
  <2>5. SpokenOf(d) = SpokenOf(c) \cup {x}
    BY <1>1, <1>2, <1>4, <2>3, Kinds DEF SpokenOf
  <2>6. WordOf(d, x) = v
    BY <1>4, <2>2, <2>3 DEF WordOf
  <2>7. ASSUME NEW y \in SpokenOf(c) \ {x} PROVE WordOf(d, y) = WordOf(c, y)
    <3>1. y \in Settings /\ y = <<y[1], y[2]>>
      BY Kinds DEF SpokenOf
    <3>2. y[1] # "flag" \/ y[2] # x[2]
      BY <1>2, <1>4, <3>1, <2>7
    <3> QED
      BY <2>2, <2>3, <3>2 DEF WordOf
  <2> QED
    BY <1>3, <2>4, <2>5, <2>6, <2>7
<1>5. CASE x[1] = "fs"
  <2>1. d = [c EXCEPT !.fs = Insert(@, x[2], v)]
    BY <1>5 DEF SetWord
  <2>2. v \in BOOLEAN /\ x[2] \in Filesystems
    BY <1>1, <1>2, <1>5 DEF ValuesOf
  <2> HIDE DEF d, x, v
  <2>3. /\ d.fs = Insert(c.fs, x[2], v)
        /\ d.enabled = c.enabled /\ d.valid = c.valid /\ d.persistent = c.persistent /\ d.policy = c.policy /\ d.env = c.env
    BY <2>1 DEF Context
  <2>4. Context(d)
    <3>1. ContextType(d)
      BY <2>2, <2>3 DEF Context, ContextType, Insert
    <3>2. d = [enabled |-> d.enabled, valid |-> d.valid, fs |-> d.fs,
               persistent |-> d.persistent, policy |-> d.policy, env |-> d.env]
      BY <2>1 DEF Context
    <3> QED
      BY <3>1, <3>2 DEF Context
  <2>5. SpokenOf(d) = SpokenOf(c) \cup {x}
    BY <1>1, <1>2, <1>5, <2>3, Kinds DEF SpokenOf, Insert
  <2>6. WordOf(d, x) = v
    BY <1>5, <2>2, <2>3 DEF WordOf, Insert
  <2>7. ASSUME NEW y \in SpokenOf(c) \ {x} PROVE WordOf(d, y) = WordOf(c, y)
    <3>1. y \in Settings /\ y = <<y[1], y[2]>>
      BY Kinds DEF SpokenOf
    <3>2. y[1] # "fs" \/ y[2] # x[2]
      BY <1>2, <1>5, <3>1, <2>7
    <3> QED
      BY <2>2, <2>3, <2>7, <3>2 DEF WordOf, SpokenOf, Insert
  <2> QED
    BY <1>3, <2>4, <2>5, <2>6, <2>7
<1>6. CASE x[1] = "persist"
  <2>1. d = [c EXCEPT !.persistent = @ \cup {x[2]}]
    BY <1>6 DEF SetWord
  <2>2. v \in {TRUE} /\ x[2] \in Paths
    BY <1>1, <1>2, <1>6 DEF ValuesOf
  <2> HIDE DEF d, x, v
  <2>3. /\ d.persistent = c.persistent \cup {x[2]}
        /\ d.enabled = c.enabled /\ d.valid = c.valid /\ d.fs = c.fs /\ d.policy = c.policy /\ d.env = c.env
    BY <2>1 DEF Context
  <2>4. Context(d)
    <3>1. ContextType(d)
      BY <2>2, <2>3 DEF Context, ContextType
    <3>2. d = [enabled |-> d.enabled, valid |-> d.valid, fs |-> d.fs,
               persistent |-> d.persistent, policy |-> d.policy, env |-> d.env]
      BY <2>1 DEF Context
    <3> QED
      BY <3>1, <3>2 DEF Context
  <2>5. SpokenOf(d) = SpokenOf(c) \cup {x}
    BY <1>1, <1>2, <1>6, <2>3, Kinds DEF SpokenOf
  <2>6. WordOf(d, x) = v
    BY <1>6, <2>2, <2>3 DEF WordOf
  <2>7. ASSUME NEW y \in SpokenOf(c) \ {x} PROVE WordOf(d, y) = WordOf(c, y)
    <3>1. y \in Settings /\ y = <<y[1], y[2]>>
      BY Kinds DEF SpokenOf
    <3>2. y[1] # "persist" \/ y[2] # x[2]
      BY <1>2, <1>6, <3>1, <2>7
    <3> QED
      BY <2>2, <2>3, <2>7, <3>2 DEF WordOf, SpokenOf
  <2> QED
    BY <1>3, <2>4, <2>5, <2>6, <2>7
<1>7. CASE x[1] = "policy"
  <2>1. d = [c EXCEPT !.policy = Insert(@, x[2], v)]
    BY <1>7 DEF SetWord
  <2>2. v \in NONE .. OWN /\ x[2] \in BusNames
    BY <1>1, <1>2, <1>7 DEF ValuesOf
  <2> HIDE DEF d, x, v
  <2>3. /\ d.policy = Insert(c.policy, x[2], v)
        /\ d.enabled = c.enabled /\ d.valid = c.valid /\ d.fs = c.fs /\ d.persistent = c.persistent /\ d.env = c.env
    BY <2>1 DEF Context
  <2>4. Context(d)
    <3>1. ContextType(d)
      BY <2>2, <2>3 DEF Context, ContextType, Insert
    <3>2. d = [enabled |-> d.enabled, valid |-> d.valid, fs |-> d.fs,
               persistent |-> d.persistent, policy |-> d.policy, env |-> d.env]
      BY <2>1 DEF Context
    <3> QED
      BY <3>1, <3>2 DEF Context
  <2>5. SpokenOf(d) = SpokenOf(c) \cup {x}
    BY <1>1, <1>2, <1>7, <2>3, Kinds DEF SpokenOf, Insert
  <2>6. WordOf(d, x) = v
    BY <1>7, <2>2, <2>3 DEF WordOf, Insert
  <2>7. ASSUME NEW y \in SpokenOf(c) \ {x} PROVE WordOf(d, y) = WordOf(c, y)
    <3>1. y \in Settings /\ y = <<y[1], y[2]>>
      BY Kinds DEF SpokenOf
    <3>2. y[1] # "policy" \/ y[2] # x[2]
      BY <1>2, <1>7, <3>1, <2>7
    <3> QED
      BY <2>2, <2>3, <2>7, <3>2 DEF WordOf, SpokenOf, Insert
  <2> QED
    BY <1>3, <2>4, <2>5, <2>6, <2>7
<1>8. CASE x[1] = "env"
  <2>1. d = [c EXCEPT !.env = Insert(@, x[2], v)]
    BY <1>8 DEF SetWord
  <2>2. v \in Values /\ x[2] \in Vars
    BY <1>1, <1>2, <1>8 DEF ValuesOf
  <2> HIDE DEF d, x, v
  <2>3. /\ d.env = Insert(c.env, x[2], v)
        /\ d.enabled = c.enabled /\ d.valid = c.valid /\ d.fs = c.fs /\ d.persistent = c.persistent /\ d.policy = c.policy
    BY <2>1 DEF Context
  <2>4. Context(d)
    <3>1. ContextType(d)
      BY <2>2, <2>3 DEF Context, ContextType, Insert
    <3>2. d = [enabled |-> d.enabled, valid |-> d.valid, fs |-> d.fs,
               persistent |-> d.persistent, policy |-> d.policy, env |-> d.env]
      BY <2>1 DEF Context
    <3> QED
      BY <3>1, <3>2 DEF Context
  <2>5. SpokenOf(d) = SpokenOf(c) \cup {x}
    BY <1>1, <1>2, <1>8, <2>3, Kinds DEF SpokenOf, Insert
  <2>6. WordOf(d, x) = v
    BY <1>8, <2>2, <2>3 DEF WordOf, Insert
  <2>7. ASSUME NEW y \in SpokenOf(c) \ {x} PROVE WordOf(d, y) = WordOf(c, y)
    <3>1. y \in Settings /\ y = <<y[1], y[2]>>
      BY Kinds DEF SpokenOf
    <3>2. y[1] # "env" \/ y[2] # x[2]
      BY <1>2, <1>8, <3>1, <2>7
    <3> QED
      BY <2>2, <2>3, <2>7, <3>2 DEF WordOf, SpokenOf, Insert
  <2> QED
    BY <1>3, <2>4, <2>5, <2>6, <2>7
<1> QED
  BY <1>2, <1>4, <1>5, <1>6, <1>7, <1>8

\* A table of words, as files and command lines make them.
WordTable(m) == MeaningType(m) /\ m = [x \in DOMAIN m |-> m[x]]

LEMMA ViewType ==
  ASSUME NEW c, ContextType(c)
  PROVE  WordTable(View(c)) /\ DOMAIN View(c) = SpokenOf(c)
<1>1. DOMAIN View(c) = SpokenOf(c) /\ \A x \in SpokenOf(c) : View(c)[x] = WordOf(c, x)
  BY DEF View
<1>2. SpokenOf(c) \subseteq Settings
  BY DEF SpokenOf
<1>3. ASSUME NEW x \in SpokenOf(c) PROVE WordOf(c, x) \in ValuesOf(x[1])
  <2>1. x \in Settings
    BY <1>2
  <2>2. CASE x[1] = "flag"
    BY <2>2 DEF WordOf, ValuesOf
  <2>3. CASE x[1] = "fs"
    BY <2>3 DEF WordOf, ValuesOf, SpokenOf, ContextType
  <2>4. CASE x[1] = "persist"
    BY <2>4 DEF WordOf, ValuesOf
  <2>5. CASE x[1] = "policy"
    BY <2>5 DEF WordOf, ValuesOf, SpokenOf, ContextType
  <2>6. CASE x[1] = "env"
    BY <2>6 DEF WordOf, ValuesOf, SpokenOf, ContextType
  <2> QED
    BY <2>1, <2>2, <2>3, <2>4, <2>5, <2>6, Kinds
<1>4. View(c) = [x \in DOMAIN View(c) |-> View(c)[x]]
  BY DEF View
<1> QED
  BY <1>1, <1>2, <1>3, <1>4 DEF WordTable, MeaningType

\* Two contexts put on one another, as merging and loading do.
Merged(d, c, o) ==
  /\ d.valid = c.valid \cup o.valid
  /\ d.enabled = (c.enabled \ o.valid) \cup o.enabled
  /\ d.fs = InsertAll(c.fs, o.fs)
  /\ d.persistent = c.persistent \cup o.persistent
  /\ d.policy = InsertAll(c.policy, o.policy)
  /\ d.env = InsertAll(c.env, o.env)
  /\ d = [enabled |-> d.enabled, valid |-> d.valid, fs |-> d.fs,
          persistent |-> d.persistent, policy |-> d.policy, env |-> d.env]

LEMMA MergedView ==
  ASSUME NEW c, NEW o, NEW d, ContextType(c), ContextType(o), Merged(d, c, o)
  PROVE  Context(d) /\ View(d) = InsertAll(View(c), View(o))
<1>1. Context(d)
  <2>1. d.enabled \subseteq d.valid /\ d.valid \subseteq Flags /\ d.persistent \subseteq Paths
    BY DEF Merged, ContextType
  <2>2. d.fs \in [DOMAIN d.fs -> BOOLEAN] /\ DOMAIN d.fs \subseteq Filesystems
    BY DEF Merged, ContextType, InsertAll
  <2>3. d.policy \in [DOMAIN d.policy -> NONE .. OWN] /\ DOMAIN d.policy \subseteq BusNames
    BY DEF Merged, ContextType, InsertAll
  <2>4. d.env \in [DOMAIN d.env -> Values] /\ DOMAIN d.env \subseteq Vars
    BY DEF Merged, ContextType, InsertAll
  <2> QED
    BY <2>1, <2>2, <2>3, <2>4 DEF Merged, Context, ContextType
<1>2. SpokenOf(d) = SpokenOf(c) \cup SpokenOf(o)
  BY DEF Merged, SpokenOf, InsertAll
<1>3. ASSUME NEW x \in SpokenOf(d)
      PROVE  WordOf(d, x) = IF x \in SpokenOf(o) THEN WordOf(o, x) ELSE WordOf(c, x)
  <2>1. x \in Settings
    BY DEF SpokenOf
  <2>2. CASE x[1] = "flag"
    <3>1. WordOf(d, x) = IF x[2] \in d.enabled THEN TRUE ELSE FALSE
      BY <2>2 DEF WordOf
    <3>2. x \in SpokenOf(o) <=> x[2] \in o.valid
      BY <2>1, <2>2 DEF SpokenOf
    <3>3. x[2] \in d.enabled <=> IF x[2] \in o.valid THEN x[2] \in o.enabled ELSE x[2] \in c.enabled
      BY DEF Merged, ContextType
    <3>4. /\ WordOf(o, x) = IF x[2] \in o.enabled THEN TRUE ELSE FALSE
          /\ WordOf(c, x) = IF x[2] \in c.enabled THEN TRUE ELSE FALSE
      BY <2>2 DEF WordOf
    <3> QED
      BY <3>1, <3>2, <3>3, <3>4
  <2>3. CASE x[1] = "fs"
    BY <2>1, <2>3 DEF WordOf, SpokenOf, Merged, InsertAll
  <2>4. CASE x[1] = "persist"
    BY <2>4 DEF WordOf
  <2>5. CASE x[1] = "policy"
    BY <2>1, <2>5 DEF WordOf, SpokenOf, Merged, InsertAll
  <2>6. CASE x[1] = "env"
    BY <2>1, <2>6 DEF WordOf, SpokenOf, Merged, InsertAll
  <2> QED
    BY <2>1, <2>2, <2>3, <2>4, <2>5, <2>6, Kinds
<1>4. /\ DOMAIN View(c) = SpokenOf(c) /\ \A x \in SpokenOf(c) : View(c)[x] = WordOf(c, x)
      /\ DOMAIN View(o) = SpokenOf(o) /\ \A x \in SpokenOf(o) : View(o)[x] = WordOf(o, x)
      /\ View(d) = [x \in SpokenOf(d) |-> WordOf(d, x)]
  BY DEF View
<1>5. View(d) = InsertAll(View(c), View(o))
  BY <1>2, <1>3, <1>4 DEF InsertAll
<1> QED
  BY <1>1, <1>5

\* A merge puts the words of the other context over its own.
LEMMA MergeView ==
  ASSUME NEW c, NEW o, Context(c), ContextType(o)
  PROVE  /\ Context(xdg_app_context_merge(c, o))
         /\ View(xdg_app_context_merge(c, o)) = InsertAll(View(c), View(o))
<1>1. Merged(xdg_app_context_merge(c, o), c, o)
  BY DEF Merged, xdg_app_context_merge
<1> QED
  BY <1>1, MergedView DEF Context

\* Loading a file is such a merge.
LEMMA LoadView ==
  ASSUME NEW c, NEW o, Context(c), ContextType(o)
  PROVE  /\ Context(xdg_app_context_load_metadata(c, o))
         /\ View(xdg_app_context_load_metadata(c, o)) = InsertAll(View(c), View(o))
<1> DEFINE d == xdg_app_context_load_metadata(c, o)
<1>1. /\ d.enabled = (c.enabled \cup o.enabled) \ (o.valid \ o.enabled)
      /\ d.valid = c.valid \cup o.valid /\ d.fs = InsertAll(c.fs, o.fs)
      /\ d.persistent = c.persistent \cup o.persistent
      /\ d.policy = InsertAll(c.policy, o.policy) /\ d.env = InsertAll(c.env, o.env)
  BY DEF Context, xdg_app_context_load_metadata
<1>2. d = [enabled |-> d.enabled, valid |-> d.valid, fs |-> d.fs,
           persistent |-> d.persistent, policy |-> d.policy, env |-> d.env]
  <2>1. d = [c EXCEPT !.enabled = d.enabled, !.valid = d.valid, !.fs = d.fs,
                      !.persistent = d.persistent, !.policy = d.policy, !.env = d.env]
    BY DEF Context, xdg_app_context_load_metadata
  <2> HIDE DEF d
  <2> QED
    BY <2>1 DEF Context
<1>3. Merged(d, c, o)
  <2> HIDE DEF d
  <2>1. (c.enabled \cup o.enabled) \ (o.valid \ o.enabled) = (c.enabled \ o.valid) \cup o.enabled
    BY DEF ContextType
  <2> QED
    BY <1>1, <1>2, <2>1 DEF Merged
<1> QED
  BY <1>3, MergedView DEF Context, d

\* What a file does not keep: filesystems that are not exposed, and names
\* without a policy.
Blank(x, value) == (x[1] = "fs" /\ value = FALSE) \/ (x[1] = "policy" /\ value = NONE)

LEMMA SaveView ==
  ASSUME NEW c, Context(c)
  PROVE  /\ ContextType(xdg_app_context_save_metadata(c))
         /\ View(xdg_app_context_save_metadata(c)) =
              [x \in {y \in DOMAIN View(c) : ~Blank(y, View(c)[y])} |-> View(c)[x]]
<1> DEFINE d == xdg_app_context_save_metadata(c)
<1>1. /\ d.enabled = c.enabled /\ d.valid = c.valid
      /\ d.fs = [f \in {g \in DOMAIN c.fs : c.fs[g]} |-> TRUE]
      /\ d.persistent = c.persistent
      /\ d.policy = [n \in {m \in DOMAIN c.policy : c.policy[m] > NONE} |-> c.policy[n]]
      /\ d.env = c.env
  BY DEF Context, xdg_app_context_save_metadata
<1> HIDE DEF d
<1>2. ContextType(d)
  BY <1>1 DEF Context, ContextType
<1>3. SpokenOf(c) \subseteq Settings /\ SpokenOf(d) \subseteq Settings
  BY DEF SpokenOf
<1>4. ASSUME NEW x \in Settings
      PROVE  /\ x \in SpokenOf(d) <=> x \in SpokenOf(c) /\ ~Blank(x, WordOf(c, x))
             /\ x \in SpokenOf(d) => WordOf(d, x) = WordOf(c, x)
  <2>1. CASE x[1] = "flag"
    BY <1>1, <2>1 DEF SpokenOf, WordOf, Blank
  <2>2. CASE x[1] = "fs"
    BY <1>1, <2>2 DEF SpokenOf, WordOf, Blank, Context, ContextType
  <2>3. CASE x[1] = "persist"
    BY <1>1, <2>3 DEF SpokenOf, WordOf, Blank
  <2>4. CASE x[1] = "policy"
    BY <1>1, <2>4 DEF SpokenOf, WordOf, Blank, Context, ContextType, NONE, OWN
  <2>5. CASE x[1] = "env"
    BY <1>1, <2>5 DEF SpokenOf, WordOf, Blank
  <2> QED
    BY <2>1, <2>2, <2>3, <2>4, <2>5, Kinds
<1>5. /\ DOMAIN View(c) = SpokenOf(c) /\ \A x \in SpokenOf(c) : View(c)[x] = WordOf(c, x)
      /\ View(d) = [x \in SpokenOf(d) |-> WordOf(d, x)]
  BY DEF View
<1>6. SpokenOf(d) = {y \in DOMAIN View(c) : ~Blank(y, View(c)[y])}
  BY <1>3, <1>4, <1>5
<1>7. View(d) = [x \in {y \in DOMAIN View(c) : ~Blank(y, View(c)[y])} |-> View(c)[x]]
  BY <1>3, <1>4, <1>5, <1>6
<1> QED
  BY <1>2, <1>7 DEF d

-----------------------------------------------------------------------------
(* Lists of words.                                                         *)

\* The order of the numbers as a set of pairs.
Before == {p \in Nat \X Nat : p[1] < p[2]}

\* A set of numbers has a least one.
LEMMA Least ==
  ASSUME NEW T, T \subseteq Nat, T # {}
  PROVE  \E n \in T : \A k \in T : n <= k
<1>1. OpToRel(<, Nat) = Before
  BY Zenon DEF OpToRel, Before
<1>2. IsWellFoundedOn(Before, Nat)
  BY <1>1, NatLessThanWellFounded, Zenon
<1>3. PICK n \in T : \A k \in T : <<k, n>> \notin Before
  BY <1>2, WFMin
<1>4. \A k \in T : k < n => <<k, n>> \in Before
  BY DEF Before
<1>5. \A k \in T : k \in Nat /\ ~(k < n)
  BY <1>3, <1>4
<1> QED
  BY <1>5

LEMMA MaxIs ==
  ASSUME NEW S, S \subseteq Int, NEW m \in S, \A x \in S : m >= x
  PROVE  Max(S) = m
<1> DEFINE Top(x) == x \in S /\ \A y \in S : x >= y
<1>1. Max(S) = CHOOSE x : Top(x)
  BY Zenon DEF Max
<1>2. Top(m)
  OBVIOUS
<1>3. Top(Max(S))
  <2> HIDE DEF Top
  <2> QED
    BY <1>1, <1>2, Zenon
<1>4. Max(S) \in Int /\ m \in Int /\ Max(S) >= m /\ m >= Max(S)
  BY <1>3
<1> QED
  BY <1>4

LEMMA MinIs ==
  ASSUME NEW S, S \subseteq Int, NEW m \in S, \A x \in S : m <= x
  PROVE  Min(S) = m
<1> DEFINE Bottom(x) == x \in S /\ \A y \in S : x =< y
<1>1. Min(S) = CHOOSE x : Bottom(x)
  BY Zenon DEF Min
<1>2. Bottom(m)
  OBVIOUS
<1>3. Bottom(Min(S))
  <2> HIDE DEF Bottom
  <2> QED
    BY <1>1, <1>2, Zenon
<1>4. Min(S) \in Int /\ m \in Int /\ Min(S) <= m /\ m <= Min(S)
  BY <1>3
<1> QED
  BY <1>4

\* f gives each set of positions what the words there make of the context, as
\* FoldLeft takes them.
FoldsTo(f, context, list, n) ==
  f = [s \in SUBSET (1..n) |->
         IF s = {} THEN context ELSE SetWord(f[s \ {Max(s)}], list[Max(s)])]

LEMMA FoldsExist ==
  ASSUME NEW context, NEW list, NEW n \in Nat
  PROVE  \E f : FoldsTo(f, context, list, n)
<1> DEFINE Upto(j) == \E f : FoldsTo(f, context, list, j)
           T == {j \in Nat : ~Upto(j)}
<1>1. Upto(0)
  <2> DEFINE f == [s \in SUBSET (1..0) |-> context]
  <2>1. f = [s \in SUBSET (1..0) |->
               IF s = {} THEN context ELSE SetWord(f[s \ {Max(s)}], list[Max(s)])]
    OBVIOUS
  <2> QED
    BY <2>1 DEF FoldsTo
<1>2. ASSUME NEW j \in Nat, Upto(j) PROVE Upto(j + 1)
  <2>1. PICK f : f = [s \in SUBSET (1..j) |->
                        IF s = {} THEN context ELSE SetWord(f[s \ {Max(s)}], list[Max(s)])]
    BY <1>2 DEF FoldsTo
  <2> DEFINE g == [s \in SUBSET (1..(j + 1)) |->
                     IF j + 1 \in s THEN SetWord(f[s \ {j + 1}], list[j + 1]) ELSE f[s]]
  <2>2. ASSUME NEW s \in SUBSET (1..(j + 1))
        PROVE  g[s] = IF s = {} THEN context ELSE SetWord(g[s \ {Max(s)}], list[Max(s)])
    <3>1. CASE j + 1 \in s
      <4>1. s \subseteq Int /\ \A x \in s : j + 1 >= x
        OBVIOUS
      <4>2. Max(s) = j + 1
        BY <3>1, <4>1, MaxIs
      <4>3. s \ {j + 1} \in SUBSET (1..j) /\ s \ {j + 1} \in SUBSET (1..(j + 1)) /\ s # {}
        BY <3>1
      <4>4. g[s \ {j + 1}] = f[s \ {j + 1}]
        BY <4>3
      <4>5. g[s] = SetWord(f[s \ {j + 1}], list[j + 1])
        BY <3>1
      <4> QED
        BY <4>2, <4>3, <4>4, <4>5
    <3>2. CASE j + 1 \notin s
      <4>1. s \in SUBSET (1..j)
        <5>1. \A x \in s : x \in 1..(j + 1) /\ x # j + 1
          BY <3>2
        <5> QED
          BY <5>1
      <4>4. \A t \in SUBSET s : g[t] = f[t]
        BY <3>2
      <4>2. g[s] = f[s] /\ g[s \ {Max(s)}] = f[s \ {Max(s)}]
        BY <4>4
      <4>3. f[s] = IF s = {} THEN context ELSE SetWord(f[s \ {Max(s)}], list[Max(s)])
        BY <2>1, <4>1
      <4> QED
        BY <4>2, <4>3
    <3> QED
      BY <3>1, <3>2
  <2>3. g = [s \in SUBSET (1..(j + 1)) |->
               IF s = {} THEN context ELSE SetWord(g[s \ {Max(s)}], list[Max(s)])]
    BY <2>2
  <2> QED
    BY <2>3 DEF FoldsTo
<1> HIDE DEF Upto
<1>3. T = {}
  <2>1. SUFFICES ASSUME T # {} PROVE FALSE
    OBVIOUS
  <2>2. PICK j \in T : \A k \in T : j <= k
    BY <2>1, Least
  <2>3. j \in Nat /\ ~Upto(j) /\ j # 0
    BY <1>1, <2>2
  <2>4. j - 1 \in Nat /\ j - 1 \notin T
    BY <2>2, <2>3
  <2>5. Upto((j - 1) + 1)
    BY <1>2, <2>4
  <2> QED
    BY <2>3, <2>5
<1>4. Upto(n)
  BY <1>3
<1> QED
  BY <1>4 DEF Upto

\* The words of a list are set one after the other.
LEMMA SetWordsSteps ==
  ASSUME NEW context, NEW list \in Seq(Words)
  PROVE  \E c : /\ c[0] = context
                /\ \A k \in 1..Len(list) : c[k] = SetWord(c[k - 1], list[k])
                /\ SetWords(context, list) = c[Len(list)]
<1> DEFINE n == Len(list)
           Is(f) == FoldsTo(f, context, list, n)
           iter == CHOOSE f : Is(f)
<1>1. n \in Nat /\ DOMAIN list = 1..n
  OBVIOUS
<1>2. SetWords(context, list) = iter[1..n]
  <2>1. SetWords(context, list) =
          (CHOOSE f : f = [s \in SUBSET (DOMAIN list) |->
             IF s = {} THEN context ELSE SetWord(f[s \ {Max(s)}], list[Max(s)])])[DOMAIN list]
    BY Zenon DEF SetWords, FoldLeft, MapThenFoldSet
  <2> QED
    BY <1>1, <2>1, Zenon DEF FoldsTo
<1>3. Is(iter)
  <2>1. \E f : Is(f)
    BY <1>1, FoldsExist
  <2> HIDE DEF Is
  <2> QED
    BY <2>1
<1> HIDE DEF iter
<1>4. \A s \in SUBSET (1..n) :
        iter[s] = IF s = {} THEN context ELSE SetWord(iter[s \ {Max(s)}], list[Max(s)])
  BY <1>3 DEF FoldsTo
<1> DEFINE c == [k \in 0..n |-> iter[1..k]]
<1>5. c[0] = context
  <2>1. 1..0 = {} /\ 1..0 \in SUBSET (1..n) /\ 0 \in 0..n
    BY <1>1
  <2> QED
    BY <1>4, <2>1
<1>6. ASSUME NEW k \in 1..n PROVE c[k] = SetWord(c[k - 1], list[k])
  <2>1. k \in 0..n /\ k - 1 \in 0..n /\ k \in 1..k /\ \A x \in 1..k : k >= x
    BY <1>1
  <2>2. Max(1..k) = k
    <3>1. 1..k \subseteq Int
      OBVIOUS
    <3> QED
      BY <2>1, <3>1, MaxIs
  <2>3. (1..k) \ {k} = 1..(k - 1) /\ 1..k \in SUBSET (1..n) /\ 1..k # {}
    <3> HIDE DEF n
    <3>1. k \in Int /\ n \in Int /\ 1 <= k /\ k <= n
      BY <1>1
    <3>2. \A x : x \in (1..k) \ {k} <=> x \in 1..(k - 1)
      BY <3>1
    <3>3. 1..k \in SUBSET (1..n)
      BY <3>1
    <3>4. k \in 1..k
      BY <3>1
    <3> QED
      BY <3>2, <3>3, <3>4
  <2>4. iter[1..k] = SetWord(iter[1..(k - 1)], list[k])
    BY <1>4, <2>2, <2>3
  <2> QED
    BY <2>1, <2>4
<1>7. c[n] = iter[1..n]
  BY <1>1
<1> QED
  BY <1>2, <1>5, <1>6, <1>7

\* v has the last of the first k words on each setting.
LastWordsOf(v, list, k) ==
  /\ v = [x \in DOMAIN v |-> v[x]]
  /\ DOMAIN v = {list[i][1] : i \in 1..k}
  /\ \A x \in DOMAIN v : \E i \in 1..k :
       /\ list[i][1] = x /\ list[i][2] = v[x]
       /\ \A j \in 1..k : list[j][1] = x => j <= i

LEMMA SaysMore ==
  ASSUME NEW v, NEW list, NEW k \in Nat, LastWordsOf(v, list, k)
  PROVE  LastWordsOf(Insert(v, list[k + 1][1], list[k + 1][2]), list, k + 1)
<1> DEFINE x == list[k + 1][1]
           w == Insert(v, x, list[k + 1][2])
<1>1. w = [y \in DOMAIN v \cup {x} |-> IF y = x THEN list[k + 1][2] ELSE v[y]]
  BY DEF Insert
<1> HIDE DEF w
<1>2. w = [y \in DOMAIN w |-> w[y]]
  BY <1>1
<1>3. 1..(k + 1) = (1..k) \cup {k + 1}
  OBVIOUS
<1>4. DOMAIN w = {list[i][1] : i \in 1..(k + 1)}
  BY <1>1, <1>3 DEF LastWordsOf
<1>5. ASSUME NEW y \in DOMAIN w
      PROVE  \E i \in 1..(k + 1) :
               /\ list[i][1] = y /\ list[i][2] = w[y]
               /\ \A j \in 1..(k + 1) : list[j][1] = y => j <= i
  <2>1. CASE y = x
    <3>1. k + 1 \in 1..(k + 1) /\ \A j \in 1..(k + 1) : j <= k + 1
      OBVIOUS
    <3> QED
      BY <1>1, <2>1, <3>1
  <2>2. CASE y # x
    <3>1. y \in DOMAIN v /\ w[y] = v[y]
      BY <1>1, <2>2
    <3>2. PICK i \in 1..k : /\ list[i][1] = y /\ list[i][2] = v[y]
                            /\ \A j \in 1..k : list[j][1] = y => j <= i
      BY <3>1 DEF LastWordsOf
    <3>3. i \in 1..(k + 1) /\ \A j \in 1..(k + 1) : list[j][1] = y => j \in 1..k
      BY <1>3, <2>2
    <3> QED
      BY <3>1, <3>2, <3>3
  <2> QED
    BY <2>1, <2>2
<1> QED
  BY <1>2, <1>4, <1>5 DEF LastWordsOf, w

LEMMA SaysAll ==
  ASSUME NEW v, NEW list \in Seq(Words), LastWordsOf(v, list, Len(list))
  PROVE  v = Meaning(list)
<1>1. DOMAIN list = 1..Len(list)
  OBVIOUS
<1>2. ASSUME NEW x \in DOMAIN v
      PROVE  v[x] = list[Max({i \in DOMAIN list : list[i][1] = x})][2]
  <2> DEFINE S == {i \in DOMAIN list : list[i][1] = x}
  <2>1. PICK i \in 1..Len(list) : /\ list[i][1] = x /\ list[i][2] = v[x]
                                  /\ \A j \in 1..Len(list) : list[j][1] = x => j <= i
    BY DEF LastWordsOf
  <2>2. i \in S /\ S \subseteq Int /\ \A j \in S : i >= j
    BY <1>1, <2>1
  <2> HIDE DEF S
  <2>3. Max(S) = i
    BY <2>2, MaxIs
  <2> QED
    BY <2>1, <2>3 DEF S
<1> QED
  BY <1>1, <1>2 DEF LastWordsOf, Meaning

\* Options and lines of a file make a context that says what their last words
\* on each setting say.
LEMMA SetWordsView ==
  ASSUME NEW list \in Seq(Words)
  PROVE  /\ Context(SetWords(xdg_app_context_new, list))
         /\ View(SetWords(xdg_app_context_new, list)) = Meaning(list)
<1> DEFINE n == Len(list)
<1>1. PICK c : /\ c[0] = xdg_app_context_new
               /\ \A k \in 1..n : c[k] = SetWord(c[k - 1], list[k])
               /\ SetWords(xdg_app_context_new, list) = c[n]
  BY SetWordsSteps
<1> DEFINE Good(k) == Context(c[k]) /\ LastWordsOf(View(c[k]), list, k)
           T == {k \in 0..n : ~Good(k)}
<1>2. n \in Nat
  OBVIOUS
<1> HIDE DEF n
<1>3. Good(0)
  <2>1. LastWordsOf(Nothing, list, 0)
    BY DEF LastWordsOf, Nothing
  <2> QED
    BY <1>1, <2>1, NewView
<1>4. ASSUME NEW k \in Nat, k + 1 \in 1..n, Good(k) PROVE Good(k + 1)
  <2>1. c[k + 1] = SetWord(c[k], list[k + 1])
    BY <1>1, <1>4
  <2>2. list[k + 1] \in Words
    BY <1>4 DEF n
  <2>3. Context(c[k + 1]) /\ View(c[k + 1]) = Insert(View(c[k]), list[k + 1][1], list[k + 1][2])
    BY <1>4, <2>1, <2>2, SetWordView
  <2> QED
    BY <1>4, <2>3, SaysMore
<1> HIDE DEF Good
<1>5. T = {}
  <2>1. SUFFICES ASSUME T # {} PROVE FALSE
    OBVIOUS
  <2>2. T \subseteq Nat
    BY <1>2
  <2>3. PICK k \in T : \A j \in T : k <= j
    BY <2>1, <2>2, Least
  <2>4. k \in 0..n /\ ~Good(k) /\ k # 0
    BY <1>3, <2>3
  <2>5. k - 1 \in Nat /\ k - 1 \in 0..n /\ (k - 1) + 1 \in 1..n /\ k - 1 \notin T
    BY <1>2, <2>3, <2>4
  <2>6. Good(k - 1)
    BY <2>5
  <2>7. Good((k - 1) + 1)
    BY <1>4, <2>5, <2>6
  <2> QED
    BY <1>2, <2>4, <2>7
<1>6. Good(n)
  BY <1>2, <1>5
<1> QED
  BY <1>1, <1>6, SaysAll DEF Good, n

LEMMA MeaningHasType ==
  ASSUME NEW list \in Seq(Words)
  PROVE  MeaningType(Meaning(list))
BY SetWordsView, ViewType DEF Context, WordTable

LEMMA CommandLinesAreWords ==
  ASSUME TypeOK, NEW list \in CommandLines
  PROVE  list \in Seq(Words) /\ words + Len(list) \in 0..MaxWords
<1>1. Options \subseteq Words
  <2> SUFFICES ASSUME NEW word \in Options PROVE word \in Words
    OBVIOUS
  <2>1. PICK x \in Settings : word \in {<<x, v>> : v \in OptionValues(x[1])}
    BY DEF Options
  <2>2. PICK v \in OptionValues(x[1]) : word = <<x, v>>
    BY <2>1
  <2>3. v \in ValuesOf(x[1])
    <3>1. CASE x[1] = "policy"
      <4>1. v \in {TALK, OWN}
        BY <2>2, <3>1 DEF OptionValues
      <4>2. ValuesOf(x[1]) = NONE .. OWN
        BY <3>1 DEF ValuesOf
      <4> QED
        BY <4>1, <4>2 DEF NONE, TALK, OWN
    <3>2. CASE x[1] # "policy"
      BY <3>2 DEF OptionValues
    <3> QED
      BY <3>1, <3>2
  <2> QED
    BY <2>2, <2>3 DEF Words
<1>2. words \in Nat /\ MaxWords \in Nat /\ words <= MaxWords
  BY MaxWordsAssumption DEF TypeOK
<1>3. PICK n \in 0..(MaxWords - words) : list \in [1..n -> Options]
  BY DEF CommandLines, BoundedSeq, SeqOf
<1>4. n \in Nat /\ n <= MaxWords - words
  BY <1>2, <1>3
<1>5. list \in [1..n -> Words]
  BY <1>1, <1>3
<1>6. list \in Seq(Words) /\ Len(list) = n
  <2>1. list \in Seq(Words)
    BY <1>4, <1>5
  <2>2. DOMAIN list = 1..n
    BY <1>5
  <2> QED
    BY <1>4, <2>1, <2>2
<1> QED
  BY <1>2, <1>4, <1>6

-----------------------------------------------------------------------------
(* The inductive invariant.                                                *)

\* v has the words of m, but some of those that a file does not keep.
Keeps(v, m) ==
  /\ DOMAIN v \subseteq DOMAIN m
  /\ \A x \in DOMAIN v : v[x] = m[x]
  /\ \A x \in DOMAIN m \ DOMAIN v : Blank(x, m[x])

\* What runs was asked with words.
CommandsOK ==
  /\ DOMAIN cmd = Slots
  /\ \A s \in Slots : cmd[s].scope # NULL => cmd[s].args \in Seq(Words)

\* A file says what was said, unless two commands wrote it at once.
FilesKeep == \A scope \in Scopes \ raced : Keeps(View(file[scope]), said[scope])

\* A sandbox runs with what the files and its command line make, for as long
\* as no file was written.
SandboxMade == sandbox # NoSandbox =>
  /\ sandbox.installed \in {"system", "user"} /\ sandbox.found \in HostDirs
  /\ \E list \in Seq(Words), socket \in BOOLEAN :
       /\ sandbox.args = Meaning(list)
       /\ sandbox.got =
            Arguments(AppContext(sandbox.installed, SetWords(xdg_app_context_new, list)),
                      socket, sandbox.found)

IInv == TypeOK /\ CommandsOK /\ FilesKeep /\ SandboxMade

LEMMA KeepsAll == ASSUME NEW m PROVE Keeps(m, m)
BY DEF Keeps

\* An override reads a file, puts its words over it and writes it back: the
\* file keeps what was said before and what the override says.
LEMMA WriteKeeps ==
  ASSUME NEW v, NEW m, NEW am, Keeps(v, m)
  PROVE  LET w == InsertAll(v, am)
         IN  Keeps([x \in {y \in DOMAIN w : ~Blank(y, w[y])} |-> w[x]], InsertAll(m, am))
<1> DEFINE w == InsertAll(v, am)
           n == InsertAll(m, am)
           r == [x \in {y \in DOMAIN w : ~Blank(y, w[y])} |-> w[x]]
<1>1. /\ DOMAIN w = DOMAIN v \cup DOMAIN am
      /\ \A x \in DOMAIN w : w[x] = IF x \in DOMAIN am THEN am[x] ELSE v[x]
      /\ DOMAIN n = DOMAIN m \cup DOMAIN am
      /\ \A x \in DOMAIN n : n[x] = IF x \in DOMAIN am THEN am[x] ELSE m[x]
  BY DEF InsertAll
<1>2. DOMAIN r = {y \in DOMAIN w : ~Blank(y, w[y])} /\ \A x \in DOMAIN r : r[x] = w[x]
  OBVIOUS
<1> HIDE DEF w, n, r
<1>3. \A x \in DOMAIN w : x \in DOMAIN n /\ w[x] = n[x]
  BY <1>1 DEF Keeps
<1>4. \A x \in DOMAIN n \ DOMAIN w : Blank(x, n[x])
  BY <1>1 DEF Keeps
<1>5. Keeps(r, n)
  BY <1>2, <1>3, <1>4 DEF Keeps
<1> QED
  BY <1>5 DEF w, n, r

LEMMA InvInit == Init => IInv
<1> SUFFICES ASSUME Init PROVE IInv
  OBVIOUS
<1>1. PICK r \in RuntimeWords, a \in AppWords :
        /\ said = [scope \in Scopes |-> IF scope = "runtime" THEN Meaning(r)
                                       ELSE IF scope = "app" THEN Meaning(a) ELSE Nothing]
        /\ file = [scope \in Scopes |->
             SetWords(xdg_app_context_new,
                      IF scope = "runtime" THEN r ELSE IF scope = "app" THEN a ELSE <<>>)]
        /\ cmd = [s \in Slots |-> NoCommand]
        /\ sandbox = NoSandbox
        /\ words = 0 /\ built = FALSE /\ raced = {}
  BY DEF Init
<1> DEFINE said_(scope) == IF scope = "runtime" THEN r ELSE IF scope = "app" THEN a ELSE <<>>
<1>2. r \in Seq(Words) /\ a \in Seq(Words) /\ <<>> \in Seq(Words)
  BY WordsAssumption
<1>3. Meaning(<<>>) = Nothing
  BY DEF Meaning, Nothing
<1>4. ASSUME NEW scope \in Scopes
      PROVE  /\ said_(scope) \in Seq(Words)
             /\ file[scope] = SetWords(xdg_app_context_new, said_(scope))
             /\ said[scope] = Meaning(said_(scope))
  BY <1>1, <1>2, <1>3
<1> HIDE DEF said_
<1>5. ASSUME NEW scope \in Scopes
      PROVE  /\ ContextType(file[scope]) /\ MeaningType(said[scope])
             /\ View(file[scope]) = said[scope]
  BY <1>4, SetWordsView, MeaningHasType DEF Context
<1>6. TypeOK
  <2>1. DOMAIN file = Scopes /\ DOMAIN said = Scopes
    BY <1>1
  <2>2. \A s \in Slots : cmd[s].scope = NULL
    BY <1>1 DEF NoCommand
  <2>3. words \in 0..MaxWords
    BY <1>1, MaxWordsAssumption
  <2>4. built \in BOOLEAN /\ raced \subseteq Scopes
    BY <1>1
  <2> QED
    BY <1>5, <2>1, <2>2, <2>3, <2>4 DEF TypeOK
<1>7. CommandsOK
  BY <1>1 DEF CommandsOK, NoCommand
<1>8. FilesKeep
  BY <1>5, KeepsAll DEF FilesKeep
<1>9. SandboxMade
  BY <1>1 DEF SandboxMade
<1> QED
  BY <1>6, <1>7, <1>8, <1>9 DEF IInv

LEMMA ReadsFileKeeps ==
  ASSUME IInv, NEW s \in Slots, NEW scope \in Scopes \ {"runtime"}, NEW list \in CommandLines,
         ReadsFile(s, scope, list), built' \in BOOLEAN
  PROVE  IInv'
<1>1. list \in Seq(Words) /\ words + Len(list) \in 0..MaxWords
  BY CommandLinesAreWords DEF IInv
<1>2. /\ words' = words + Len(list)
      /\ cmd' = [cmd EXCEPT ![s] =
                   [scope |-> scope, args |-> list, read |-> file[scope], heard |-> said[scope]]]
      /\ sandbox' = NoSandbox
      /\ file' = file /\ said' = said /\ raced' = raced
  BY DEF ReadsFile
<1>3. /\ DOMAIN cmd' = Slots
      /\ cmd'[s] = [scope |-> scope, args |-> list, read |-> file[scope], heard |-> said[scope]]
      /\ \A t \in Slots \ {s} : cmd'[t] = cmd[t]
  BY <1>2 DEF IInv, CommandsOK
<1>4. TypeOK'
  <2>1. ContextType(file[scope]) /\ MeaningType(said[scope])
    BY DEF IInv, TypeOK
  <2>2. ASSUME NEW t \in Slots, cmd'[t].scope # NULL
        PROVE  /\ cmd'[t].scope \in Scopes \ {"runtime"}
               /\ ContextType(cmd'[t].read) /\ MeaningType(cmd'[t].heard)
    <3>1. CASE t = s
      BY <1>3, <2>1, <3>1
    <3>2. CASE t # s
      BY <1>3, <2>2, <3>2 DEF IInv, TypeOK
    <3> QED
      BY <3>1, <3>2
  <2> QED
    BY <1>1, <1>2, <2>2 DEF IInv, TypeOK
<1>5. CommandsOK'
  <2>1. ASSUME NEW t \in Slots, cmd'[t].scope # NULL
        PROVE  cmd'[t].args \in Seq(Words)
    BY <1>1, <1>3, <2>1 DEF IInv, CommandsOK
  <2> QED
    BY <1>3, <2>1 DEF CommandsOK
<1>6. FilesKeep'
  BY <1>2 DEF IInv, FilesKeep
<1>7. SandboxMade'
  BY <1>2 DEF SandboxMade
<1> QED
  BY <1>4, <1>5, <1>6, <1>7 DEF IInv

LEMMA WriteFileKeeps ==
  ASSUME IInv, NEW s \in Slots, WriteFile(s)
  PROVE  IInv'
<1> DEFINE scope == cmd[s].scope
           loaded == xdg_app_context_load_metadata(xdg_app_context_new, cmd[s].read)
           args == SetWords(xdg_app_context_new, cmd[s].args)
           saved == xdg_app_context_save_metadata(xdg_app_context_merge(loaded, args))
           m == InsertAll(cmd[s].heard, Meaning(cmd[s].args))
<1>1. /\ scope # NULL
      /\ file' = [file EXCEPT ![scope] = saved]
      /\ said' = [said EXCEPT ![scope] = m]
      /\ raced' = IF file[scope] = cmd[s].read /\ said[scope] = cmd[s].heard
                    THEN raced ELSE raced \cup {scope}
      /\ cmd' = [cmd EXCEPT ![s] = NoCommand]
      /\ sandbox' = NoSandbox
      /\ words' = words /\ built' = built
  BY DEF WriteFile
<1>2. /\ scope \in Scopes /\ cmd[s].args \in Seq(Words)
      /\ ContextType(cmd[s].read) /\ MeaningType(cmd[s].heard)
  BY <1>1 DEF IInv, TypeOK, CommandsOK
<1>3. Context(args) /\ View(args) = Meaning(cmd[s].args)
  BY <1>2, SetWordsView
<1>4. Context(loaded) /\ View(loaded) = View(cmd[s].read)
  <2>1. Context(loaded) /\ View(loaded) = InsertAll(Nothing, View(cmd[s].read))
    BY <1>2, NewView, LoadView
  <2>2. View(cmd[s].read) = [x \in DOMAIN View(cmd[s].read) |-> View(cmd[s].read)[x]]
    BY <1>2, ViewType DEF WordTable
  <2>3. InsertAll(Nothing, View(cmd[s].read)) = View(cmd[s].read)
    BY <2>2 DEF InsertAll, Nothing
  <2> QED
    BY <2>1, <2>3
<1>5. /\ ContextType(saved)
      /\ LET w == InsertAll(View(cmd[s].read), Meaning(cmd[s].args))
         IN  View(saved) = [x \in {y \in DOMAIN w : ~Blank(y, w[y])} |-> w[x]]
  <2> HIDE DEF loaded, args
  <2>1. /\ Context(xdg_app_context_merge(loaded, args))
        /\ View(xdg_app_context_merge(loaded, args)) =
             InsertAll(View(cmd[s].read), Meaning(cmd[s].args))
    BY <1>3, <1>4, MergeView DEF Context
  <2> QED
    BY <2>1, SaveView
<1>6. Keeps(View(cmd[s].read), cmd[s].heard) => Keeps(View(saved), m)
  BY <1>5, WriteKeeps
<1>7. MeaningType(m)
  <2>1. MeaningType(Meaning(cmd[s].args))
    BY <1>2, MeaningHasType
  <2> QED
    BY <1>2, <2>1 DEF MeaningType, InsertAll
<1> HIDE DEF scope, saved, m
<1>8. TypeOK'
  <2>1. /\ DOMAIN file' = Scopes /\ DOMAIN said' = Scopes
        /\ \A c \in Scopes : ContextType(file'[c]) /\ MeaningType(said'[c])
    BY <1>1, <1>5, <1>7 DEF IInv, TypeOK
  <2>2. ASSUME NEW t \in Slots, cmd'[t].scope # NULL
        PROVE  /\ cmd'[t].scope \in Scopes \ {"runtime"}
               /\ ContextType(cmd'[t].read) /\ MeaningType(cmd'[t].heard)
    <3>1. cmd'[t] = cmd[t]
      BY <1>1, <2>2 DEF IInv, CommandsOK, NoCommand
    <3> QED
      BY <2>2, <3>1 DEF IInv, TypeOK
  <2>3. raced' \subseteq Scopes
    BY <1>1, <1>2 DEF IInv, TypeOK
  <2> QED
    BY <1>1, <2>1, <2>2, <2>3 DEF IInv, TypeOK
<1>9. CommandsOK'
  <2>1. DOMAIN cmd' = Slots
    BY <1>1 DEF IInv, CommandsOK
  <2>2. ASSUME NEW t \in Slots, cmd'[t].scope # NULL PROVE cmd'[t].args \in Seq(Words)
    BY <1>1, <2>2 DEF IInv, CommandsOK, NoCommand
  <2> QED
    BY <2>1, <2>2 DEF CommandsOK
<1>10. FilesKeep'
  <2> SUFFICES ASSUME NEW c \in Scopes \ raced' PROVE Keeps(View(file'[c]), said'[c])
    BY DEF FilesKeep
  <2>1. c \in Scopes \ raced
    BY <1>1
  <2>2. CASE c # scope
    <3>1. file'[c] = file[c] /\ said'[c] = said[c]
      BY <1>1, <2>1, <2>2 DEF IInv, TypeOK
    <3> QED
      BY <2>1, <3>1 DEF IInv, FilesKeep
  <2>3. CASE c = scope
    <3>1. file[scope] = cmd[s].read /\ said[scope] = cmd[s].heard
      BY <1>1, <2>3
    <3>2. Keeps(View(cmd[s].read), cmd[s].heard)
      BY <2>1, <2>3, <3>1 DEF IInv, FilesKeep
    <3>3. file'[c] = saved /\ said'[c] = m
      BY <1>1, <1>2, <2>3 DEF IInv, TypeOK
    <3> QED
      BY <1>6, <3>2, <3>3
  <2> QED
    BY <2>2, <2>3
<1>11. SandboxMade'
  BY <1>1 DEF SandboxMade
<1> QED
  BY <1>8, <1>9, <1>10, <1>11 DEF IInv

LEMMA KilledKeeps ==
  ASSUME IInv, NEW s \in Slots, Killed(s)
  PROVE  IInv'
<1>1. /\ cmd' = [cmd EXCEPT ![s] = NoCommand]
      /\ file' = file /\ sandbox' = sandbox /\ words' = words /\ built' = built
      /\ said' = said /\ raced' = raced
  BY DEF Killed
<1>2. DOMAIN cmd' = Slots /\ \A t \in Slots : cmd'[t].scope # NULL => cmd'[t] = cmd[t]
  BY <1>1 DEF IInv, CommandsOK, NoCommand
<1>3. TypeOK'
  BY <1>1, <1>2 DEF IInv, TypeOK
<1>4. CommandsOK'
  BY <1>2 DEF IInv, CommandsOK
<1>5. FilesKeep'
  BY <1>1 DEF IInv, FilesKeep
<1>6. SandboxMade'
  BY <1>1 DEF IInv, SandboxMade, AppContext, Overrides
<1> QED
  BY <1>3, <1>4, <1>5, <1>6 DEF IInv

LEMMA EditFileKeeps ==
  ASSUME IInv, NEW scope \in {"system", "user"}, EditFile(scope)
  PROVE  IInv'
<1>1. PICK list \in Handwritten :
        /\ words + Len(list) <= MaxWords
        /\ words' = words + Len(list)
        /\ file' = [file EXCEPT ![scope] = SetWords(xdg_app_context_new, list)]
        /\ said' = [said EXCEPT ![scope] = Meaning(list)]
        /\ raced' = raced \ {scope}
        /\ sandbox' = NoSandbox
        /\ cmd' = cmd /\ built' = built
  BY DEF EditFile
<1>2. list \in Seq(Words) /\ scope \in Scopes
  BY WordsAssumption DEF Scopes
<1>3. /\ ContextType(SetWords(xdg_app_context_new, list)) /\ MeaningType(Meaning(list))
      /\ View(SetWords(xdg_app_context_new, list)) = Meaning(list)
  BY <1>2, SetWordsView, MeaningHasType DEF Context
<1>4. /\ DOMAIN file' = Scopes /\ DOMAIN said' = Scopes
      /\ file'[scope] = SetWords(xdg_app_context_new, list) /\ said'[scope] = Meaning(list)
      /\ \A c \in Scopes \ {scope} : file'[c] = file[c] /\ said'[c] = said[c]
  BY <1>1, <1>2 DEF IInv, TypeOK
<1>5. TypeOK'
  <2>1. Len(list) \in Nat /\ words \in 0..MaxWords /\ MaxWords \in Nat
    BY <1>2, MaxWordsAssumption DEF IInv, TypeOK
  <2>2. words' \in 0..MaxWords
    BY <1>1, <2>1
  <2>3. \A c \in Scopes : ContextType(file'[c]) /\ MeaningType(said'[c])
    BY <1>3, <1>4 DEF IInv, TypeOK
  <2> QED
    BY <1>1, <1>4, <2>2, <2>3 DEF IInv, TypeOK
<1>6. CommandsOK'
  BY <1>1 DEF IInv, CommandsOK
<1>7. FilesKeep'
  <2> SUFFICES ASSUME NEW c \in Scopes \ raced' PROVE Keeps(View(file'[c]), said'[c])
    BY DEF FilesKeep
  <2>1. CASE c = scope
    BY <1>3, <1>4, <2>1, KeepsAll
  <2>2. CASE c # scope
    BY <1>1, <1>4, <2>2 DEF IInv, FilesKeep
  <2> QED
    BY <2>1, <2>2
<1>8. SandboxMade'
  BY <1>1 DEF SandboxMade
<1> QED
  BY <1>5, <1>6, <1>7, <1>8 DEF IInv

LEMMA RunKeeps ==
  ASSUME IInv, run
  PROVE  IInv'
<1>1. PICK installed \in {"system", "user"}, socket \in BOOLEAN, found \in HostDirs,
           list \in CommandLines :
        /\ words' = words + Len(list)
        /\ sandbox' = [installed |-> installed, args |-> Meaning(list), found |-> found,
                       got |-> Arguments(AppContext(installed, SetWords(xdg_app_context_new, list)),
                                         socket, found)]
        /\ file' = file /\ cmd' = cmd /\ built' = built /\ said' = said /\ raced' = raced
  BY DEF run
<1>2. list \in Seq(Words) /\ words + Len(list) \in 0..MaxWords
  BY CommandLinesAreWords DEF IInv
<1>3. TypeOK'
  BY <1>1, <1>2 DEF IInv, TypeOK
<1>4. CommandsOK' /\ FilesKeep'
  BY <1>1 DEF IInv, CommandsOK, FilesKeep
<1>5. AppContext(installed, SetWords(xdg_app_context_new, list))' =
        AppContext(installed, SetWords(xdg_app_context_new, list))
  BY <1>1 DEF AppContext, Overrides
<1>6. /\ sandbox'.installed = installed /\ sandbox'.args = Meaning(list)
      /\ sandbox'.found = found
      /\ sandbox'.got =
           Arguments(AppContext(installed, SetWords(xdg_app_context_new, list)), socket, found)
  BY <1>1
<1>7. SandboxMade'
  BY <1>2, <1>5, <1>6 DEF SandboxMade
<1> QED
  BY <1>3, <1>4, <1>7 DEF IInv

LEMMA InvStep == ASSUME IInv, [Next]_vars PROVE IInv'
<1>1. ASSUME NEW s \in Slots, override(s) PROVE IInv'
  <2>1. PICK scope \in {"system", "user"}, list \in CommandLines \ {<<>>} : ReadsFile(s, scope, list)
    BY <1>1 DEF override
  <2>2. scope \in Scopes \ {"runtime"} /\ list \in CommandLines
    BY DEF Scopes
  <2>3. built' \in BOOLEAN
    BY <1>1 DEF override, IInv, TypeOK
  <2> QED
    BY <2>1, <2>2, <2>3, ReadsFileKeeps
<1>2. ASSUME NEW s \in Slots, build_finish(s) PROVE IInv'
  <2>1. PICK list \in CommandLines : ReadsFile(s, "app", list)
    BY <1>2 DEF build_finish
  <2>2. "app" \in Scopes \ {"runtime"} /\ built' \in BOOLEAN
    BY <1>2 DEF Scopes, build_finish
  <2> QED
    BY <2>1, <2>2, ReadsFileKeeps
<1>3. CASE UNCHANGED vars
  <2>1. /\ file' = file /\ cmd' = cmd /\ sandbox' = sandbox /\ words' = words
        /\ built' = built /\ said' = said /\ raced' = raced
    BY <1>3 DEF vars
  <2>2. TypeOK' /\ CommandsOK' /\ FilesKeep'
    BY <2>1 DEF IInv, TypeOK, CommandsOK, FilesKeep
  <2>3. SandboxMade'
    BY <2>1 DEF IInv, SandboxMade, AppContext, Overrides
  <2> QED
    BY <2>2, <2>3 DEF IInv
<1>4. CASE SandboxEnds
  BY <1>4 DEF SandboxEnds, IInv, TypeOK, CommandsOK, FilesKeep, SandboxMade
<1> QED
  BY <1>1, <1>2, <1>3, <1>4, WriteFileKeeps, KilledKeeps, EditFileKeeps, RunKeeps DEF Next

-----------------------------------------------------------------------------
(* What a sandbox gets.                                                    *)

\* The override files give their words, the user's over the system's.
LEMMA OverridesView ==
  ASSUME TypeOK, NEW installed \in {"system", "user"}
  PROVE  /\ Context(Overrides(installed))
         /\ View(Overrides(installed)) =
              InsertAll(IF installed = "system" THEN View(file["system"]) ELSE Nothing,
                        View(file["user"]))
<1> DEFINE Loaded(scope) == xdg_app_context_load_metadata(xdg_app_context_new, file[scope])
           system == IF installed = "system"
                       THEN xdg_app_context_merge(xdg_app_context_new, Loaded("system"))
                       ELSE xdg_app_context_new
<1>1. ASSUME NEW v, v = [x \in DOMAIN v |-> v[x]] PROVE InsertAll(Nothing, v) = v
  BY <1>1 DEF InsertAll, Nothing
<1>2. ASSUME NEW scope \in Scopes
      PROVE  Context(Loaded(scope)) /\ View(Loaded(scope)) = View(file[scope])
  <2>1. ContextType(file[scope])
    BY DEF TypeOK
  <2>2. View(file[scope]) = [x \in DOMAIN View(file[scope]) |-> View(file[scope])[x]]
    BY <2>1, ViewType DEF WordTable
  <2> QED
    BY <1>1, <2>1, <2>2, NewView, LoadView
<1>3. /\ Context(system)
      /\ View(system) = IF installed = "system" THEN View(file["system"]) ELSE Nothing
  <2> HIDE DEF Loaded
  <2>1. CASE installed = "system"
    <3>1. "system" \in Scopes
      BY DEF Scopes
    <3>2. View(file["system"]) = [x \in DOMAIN View(file["system"]) |-> View(file["system"])[x]]
      BY <3>1, ViewType DEF WordTable, TypeOK
    <3>3. Context(Loaded("system")) /\ View(Loaded("system")) = View(file["system"])
      BY <1>2, <3>1
    <3> QED
      BY <1>1, <2>1, <3>2, <3>3, NewView, MergeView DEF Context
  <2>2. CASE installed # "system"
    BY <2>2, NewView
  <2> QED
    BY <2>1, <2>2
<1>4. Overrides(installed) = xdg_app_context_merge(system, Loaded("user"))
  BY DEF Overrides
<1> HIDE DEF system, Loaded
<1>5. Context(Loaded("user")) /\ View(Loaded("user")) = View(file["user"])
  BY <1>2 DEF Scopes
<1> QED
  BY <1>3, <1>4, <1>5, MergeView DEF Context

PortalTable == Insert(Nothing, <<"policy", Portal>>, TALK)

\* run puts the words of all layers on one another, the command line's last.
LEMMA AppContextView ==
  ASSUME TypeOK, NEW installed \in {"system", "user"}, NEW args, Context(args)
  PROVE  /\ Context(AppContext(installed, args))
         /\ View(AppContext(installed, args)) =
              InsertAll(
                InsertAll(InsertAll(InsertAll(PortalTable, View(file["runtime"])), View(file["app"])),
                          InsertAll(IF installed = "system" THEN View(file["system"]) ELSE Nothing,
                                    View(file["user"]))),
                View(args))
<1> DEFINE start == SetWord(xdg_app_context_new, <<<<"policy", Portal>>, TALK>>)
           runtime == xdg_app_context_load_metadata(start, file["runtime"])
           own == xdg_app_context_load_metadata(runtime, file["app"])
<1>1. AppContext(installed, args) =
        xdg_app_context_merge(xdg_app_context_merge(own, Overrides(installed)), args)
  BY DEF AppContext
<1>2. <<<<"policy", Portal>>, TALK>> \in Words
  <2>1. <<"policy", Portal>> \in Settings
    BY NamesAssumption DEF Settings
  <2>2. TALK \in ValuesOf("policy")
    BY DEF ValuesOf, NONE, TALK, OWN
  <2> QED
    BY <2>1, <2>2 DEF Words
<1>3. Context(start) /\ View(start) = PortalTable
  BY <1>2, NewView, SetWordView DEF PortalTable
<1>4. ContextType(file["runtime"]) /\ ContextType(file["app"])
  BY DEF TypeOK, Scopes
<1> HIDE DEF start
<1>5. Context(runtime) /\ View(runtime) = InsertAll(PortalTable, View(file["runtime"]))
  BY <1>3, <1>4, LoadView
<1> HIDE DEF runtime
<1>6. Context(own) /\ View(own) = InsertAll(InsertAll(PortalTable, View(file["runtime"])), View(file["app"]))
  BY <1>4, <1>5, LoadView
<1> HIDE DEF own
<1>7. /\ Context(xdg_app_context_merge(own, Overrides(installed)))
      /\ View(xdg_app_context_merge(own, Overrides(installed))) =
           InsertAll(View(own), View(Overrides(installed)))
  BY <1>6, OverridesView, MergeView DEF Context
<1>8. /\ Context(AppContext(installed, args))
      /\ View(AppContext(installed, args)) =
           InsertAll(InsertAll(View(own), View(Overrides(installed))), View(args))
  BY <1>1, <1>7, MergeView DEF Context
<1> QED
  BY <1>6, <1>8, OverridesView

\* The strongest of the layers that speak is the least.
LEMMA StrongestSpeaks ==
  ASSUME NEW x, Speaking(x) # {}
  PROVE  /\ Min(Speaking(x)) \in Speaking(x)
         /\ \A i \in Speaking(x) : Min(Speaking(x)) <= i
         /\ Speaking(x) \subseteq 1..6
<1>1. DOMAIN Layers = 1..6
  BY DEF Layers
<1>2. Speaking(x) \subseteq 1..6
  BY <1>1 DEF Speaking
<1> DEFINE S == Speaking(x)
<1> HIDE DEF S
<1>3. S \subseteq Nat /\ S \subseteq Int /\ S # {}
  BY <1>2 DEF S
<1>4. PICK m \in S : \A i \in S : m <= i
  BY <1>3, Least
<1>5. Min(S) = m
  BY <1>3, <1>4, MinIs
<1> QED
  BY <1>2, <1>4, <1>5 DEF S

Strongest(x) == Layers[Min(Speaking(x))][x]

\* What is said last is what the context of the sandbox has, but for words a
\* file does not keep; and what it has was said, last of all by the command
\* line if that says anything of it.
Obeys(c) ==
  /\ Context(c)
  /\ \A x \in Settings : Speaking(x) # {} =>
       /\ Strongest(x) \in ValuesOf(x[1])
       /\ ~Blank(x, Strongest(x)) => x \in SpokenOf(c) /\ WordOf(c, x) = Strongest(x)
  /\ \A x \in SpokenOf(c) :
       /\ \E i \in Speaking(x) : Layers[i][x] = WordOf(c, x)
       /\ x \in DOMAIN sandbox.args => sandbox.args[x] = WordOf(c, x)

LEMMA SandboxObeys ==
  ASSUME IInv, Judged
  PROVE  \E c : Obeys(c) /\ \E socket \in BOOLEAN : sandbox.got = Arguments(c, socket, sandbox.found)
<1>1. PICK list \in Seq(Words), socket \in BOOLEAN :
        /\ sandbox.args = Meaning(list)
        /\ sandbox.got =
             Arguments(AppContext(sandbox.installed, SetWords(xdg_app_context_new, list)),
                       socket, sandbox.found)
  BY DEF IInv, SandboxMade, Judged
<1>2. sandbox.installed \in {"system", "user"} /\ TypeOK
  BY DEF IInv, SandboxMade, Judged
<1> DEFINE args == SetWords(xdg_app_context_new, list)
           c == AppContext(sandbox.installed, args)
           k1 == View(args)
           k2 == View(file["user"])
           k3 == IF sandbox.installed = "system" THEN View(file["system"]) ELSE Nothing
           k4 == View(file["app"])
           k5 == View(file["runtime"])
           k6 == PortalTable
<1>3. Context(args) /\ k1 = sandbox.args
  BY <1>1, SetWordsView
<1>4. /\ Context(c)
      /\ View(c) = InsertAll(InsertAll(InsertAll(InsertAll(k6, k5), k4), InsertAll(k3, k2)), k1)
  BY <1>2, <1>3, AppContextView
<1>5. /\ DOMAIN Layers = 1..6 /\ Layers[1] = sandbox.args /\ Layers[2] = said["user"]
      /\ Layers[3] = (IF sandbox.installed = "system" THEN said["system"] ELSE Nothing)
      /\ Layers[4] = said["app"] /\ Layers[5] = said["runtime"] /\ Layers[6] = PortalTable
  BY DEF Layers, PortalTable
<1>6. /\ Keeps(k1, Layers[1]) /\ Keeps(k2, Layers[2]) /\ Keeps(k3, Layers[3])
      /\ Keeps(k4, Layers[4]) /\ Keeps(k5, Layers[5]) /\ Keeps(k6, Layers[6])
  <2>1. \A scope \in Scopes : Keeps(View(file[scope]), said[scope])
    BY DEF IInv, FilesKeep, Judged
  <2>2. /\ Keeps(View(file["user"]), said["user"]) /\ Keeps(View(file["system"]), said["system"])
        /\ Keeps(View(file["app"]), said["app"]) /\ Keeps(View(file["runtime"]), said["runtime"])
    BY <2>1 DEF Scopes
  <2> QED
    BY <1>3, <1>5, <2>2, KeepsAll
<1>7. \A i \in 1..6 : \A x \in DOMAIN Layers[i] : x \in Settings => Layers[i][x] \in ValuesOf(x[1])
  <2>1. MeaningType(sandbox.args)
    BY <1>1, MeaningHasType
  <2>2. /\ MeaningType(said["user"]) /\ MeaningType(said["system"])
        /\ MeaningType(said["app"]) /\ MeaningType(said["runtime"])
    BY <1>2 DEF TypeOK, Scopes
  <2>3. MeaningType(Nothing)
    BY DEF MeaningType, Nothing
  <2>4. MeaningType(PortalTable)
    <3>1. <<"policy", Portal>> \in Settings
      BY NamesAssumption DEF Settings
    <3>2. TALK \in ValuesOf("policy")
      BY DEF ValuesOf, NONE, TALK, OWN
    <3> QED
      BY <3>1, <3>2 DEF MeaningType, PortalTable, Insert, Nothing
  <2>5. \A i \in 1..6 : MeaningType(Layers[i])
    BY <1>5, <2>1, <2>2, <2>3, <2>4
  <2> QED
    BY <2>5 DEF MeaningType
<1> HIDE DEF args, c, k1, k2, k3, k4, k5, k6
<1>8. /\ DOMAIN View(c) = DOMAIN k1 \cup DOMAIN k2 \cup DOMAIN k3 \cup DOMAIN k4
                          \cup DOMAIN k5 \cup DOMAIN k6
      /\ \A x \in DOMAIN View(c) :
           View(c)[x] = IF x \in DOMAIN k1 THEN k1[x]
                        ELSE IF x \in DOMAIN k2 THEN k2[x]
                        ELSE IF x \in DOMAIN k3 THEN k3[x]
                        ELSE IF x \in DOMAIN k4 THEN k4[x]
                        ELSE IF x \in DOMAIN k5 THEN k5[x] ELSE k6[x]
  BY <1>4 DEF InsertAll
<1>9. DOMAIN View(c) = SpokenOf(c) /\ \A x \in SpokenOf(c) : View(c)[x] = WordOf(c, x)
  BY DEF View
<1>10. ASSUME NEW x \in Settings, Speaking(x) # {}
       PROVE  /\ Strongest(x) \in ValuesOf(x[1])
              /\ ~Blank(x, Strongest(x)) => x \in SpokenOf(c) /\ WordOf(c, x) = Strongest(x)
  <2> DEFINE i == Min(Speaking(x))
  <2>1. i \in Speaking(x) /\ i \in 1..6 /\ \A j \in Speaking(x) : i <= j
    BY <1>10, StrongestSpeaks
  <2> HIDE DEF i
  <2>2. x \in DOMAIN Layers[i] /\ \A j \in 1..6 : x \in DOMAIN Layers[j] => i <= j
    BY <1>5, <2>1 DEF Speaking
  <2>3. Strongest(x) = Layers[i][x]
    BY DEF Strongest, i
  <2>4. ASSUME ~Blank(x, Layers[i][x]) PROVE x \in DOMAIN View(c) /\ View(c)[x] = Layers[i][x]
    <3>1. /\ x \in DOMAIN Layers[1] \/ x \notin DOMAIN k1
          /\ x \in DOMAIN Layers[2] \/ x \notin DOMAIN k2
          /\ x \in DOMAIN Layers[3] \/ x \notin DOMAIN k3
          /\ x \in DOMAIN Layers[4] \/ x \notin DOMAIN k4
          /\ x \in DOMAIN Layers[5] \/ x \notin DOMAIN k5
          /\ x \in DOMAIN Layers[6] \/ x \notin DOMAIN k6
      BY <1>6 DEF Keeps
    <3>2. /\ i > 1 => x \notin DOMAIN k1
          /\ i > 2 => x \notin DOMAIN k2
          /\ i > 3 => x \notin DOMAIN k3
          /\ i > 4 => x \notin DOMAIN k4
          /\ i > 5 => x \notin DOMAIN k5
      BY <2>1, <2>2, <3>1
    <3>3. /\ i = 1 => x \in DOMAIN k1 /\ k1[x] = Layers[i][x]
          /\ i = 2 => x \in DOMAIN k2 /\ k2[x] = Layers[i][x]
          /\ i = 3 => x \in DOMAIN k3 /\ k3[x] = Layers[i][x]
          /\ i = 4 => x \in DOMAIN k4 /\ k4[x] = Layers[i][x]
          /\ i = 5 => x \in DOMAIN k5 /\ k5[x] = Layers[i][x]
          /\ i = 6 => x \in DOMAIN k6 /\ k6[x] = Layers[i][x]
      BY <1>6, <2>2, <2>4 DEF Keeps
    <3>4. i = 1 \/ i = 2 \/ i = 3 \/ i = 4 \/ i = 5 \/ i = 6
      BY <2>1
    <3> QED
      BY <1>8, <3>2, <3>3, <3>4
  <2> QED
    BY <1>7, <1>9, <2>1, <2>2, <2>3, <2>4
<1>11. ASSUME NEW x \in SpokenOf(c)
       PROVE  /\ \E i \in Speaking(x) : Layers[i][x] = WordOf(c, x)
              /\ x \in DOMAIN sandbox.args => sandbox.args[x] = WordOf(c, x)
  <2>1. x \in DOMAIN View(c) /\ View(c)[x] = WordOf(c, x)
    BY <1>9
  <2>2. \E i \in 1..6 : x \in DOMAIN Layers[i] /\ Layers[i][x] = View(c)[x]
    <3>1. /\ x \in DOMAIN k1 => x \in DOMAIN Layers[1] /\ Layers[1][x] = k1[x]
          /\ x \in DOMAIN k2 => x \in DOMAIN Layers[2] /\ Layers[2][x] = k2[x]
          /\ x \in DOMAIN k3 => x \in DOMAIN Layers[3] /\ Layers[3][x] = k3[x]
          /\ x \in DOMAIN k4 => x \in DOMAIN Layers[4] /\ Layers[4][x] = k4[x]
          /\ x \in DOMAIN k5 => x \in DOMAIN Layers[5] /\ Layers[5][x] = k5[x]
          /\ x \in DOMAIN k6 => x \in DOMAIN Layers[6] /\ Layers[6][x] = k6[x]
      BY <1>6 DEF Keeps
    <3>2. /\ 1 \in 1..6 /\ 2 \in 1..6 /\ 3 \in 1..6 /\ 4 \in 1..6 /\ 5 \in 1..6 /\ 6 \in 1..6
      OBVIOUS
    <3> QED
      BY <1>8, <2>1, <3>1, <3>2
  <2>3. x \in DOMAIN sandbox.args => sandbox.args[x] = View(c)[x]
    BY <1>3, <1>8, <2>1
  <2> QED
    BY <1>5, <2>1, <2>2, <2>3 DEF Speaking
<1>12. Obeys(c)
  BY <1>4, <1>10, <1>11 DEF Obeys
<1>13. sandbox.got = Arguments(c, socket, sandbox.found)
  BY <1>1 DEF c, args
<1> QED
  BY <1>12, <1>13

LEMMA SaidOrNot ==
  ASSUME NEW x, NEW default
  PROVE  Says(x, default) = IF Speaking(x) = {} THEN default ELSE Strongest(x)
BY DEF Says, Strongest

\* The arguments that a context becomes, for each kind of setting.
LEMMA LastWordHolds == ASSUME IInv PROVE LastWordRuns
<1> SUFFICES ASSUME Judged PROVE LastWordRuns
  BY DEF LastWordRuns
<1>0. PICK c : Obeys(c) /\ \E socket \in BOOLEAN : sandbox.got = Arguments(c, socket, sandbox.found)
  BY SandboxObeys
<1>1. PICK socket \in BOOLEAN : Obeys(c) /\ sandbox.got = Arguments(c, socket, sandbox.found)
  BY <1>0
<1>2. /\ sandbox.got.enabled = c.enabled /\ sandbox.got.env = c.env
      /\ sandbox.got.persisted = Persisted(c)
  BY <1>1 DEF Arguments
<1>3. sandbox.got.home <=> home_access(c)
  BY <1>1 DEF Arguments
<1>4. ASSUME NEW f \in Flags
      PROVE  f \in sandbox.got.enabled <=> Says(<<"flag", f>>, FALSE)
  <2> DEFINE x == <<"flag", f>>
  <2>1. x \in Settings /\ x[1] = "flag" /\ x[2] = f
    BY DEF Settings
  <2>2. f \in c.enabled <=> x \in SpokenOf(c) /\ WordOf(c, x) = TRUE
    BY <1>1, <2>1 DEF Obeys, Context, ContextType, SpokenOf, WordOf
  <2>3. Says(x, FALSE) = IF Speaking(x) = {} THEN FALSE ELSE Strongest(x)
    BY SaidOrNot
  <2> HIDE DEF x
  <2>4. CASE Speaking(x) = {}
    <3>1. x \notin SpokenOf(c)
      BY <1>1, <2>4 DEF Obeys
    <3> QED
      BY <1>2, <2>2, <2>3, <2>4, <3>1 DEF x
  <2>5. CASE Speaking(x) # {}
    <3>1. ~Blank(x, Strongest(x))
      BY <2>1 DEF Blank
    <3>2. Strongest(x) \in BOOLEAN
      BY <1>1, <2>1, <2>5 DEF Obeys, ValuesOf
    <3>3. x \in SpokenOf(c) /\ WordOf(c, x) = Strongest(x)
      BY <1>1, <2>1, <2>5, <3>1 DEF Obeys
    <3> QED
      BY <1>2, <2>2, <2>3, <2>5, <3>2, <3>3 DEF x
  <2> QED
    BY <2>4, <2>5
<1>5. ASSUME NEW v \in Vars
      PROVE  /\ v \in DOMAIN sandbox.got.env <=> Speaking(<<"env", v>>) # {}
             /\ v \in DOMAIN sandbox.got.env =>
                  sandbox.got.env[v] = Says(<<"env", v>>, NULL)
  <2> DEFINE x == <<"env", v>>
  <2>1. x \in Settings /\ x[1] = "env" /\ x[2] = v
    BY DEF Settings
  <2>2. v \in DOMAIN c.env <=> x \in SpokenOf(c)
    BY <2>1 DEF SpokenOf
  <2>3. WordOf(c, x) = c.env[v]
    BY <2>1 DEF WordOf
  <2>4. Says(x, NULL) = IF Speaking(x) = {} THEN NULL ELSE Strongest(x)
    BY SaidOrNot
  <2>5. ~Blank(x, Strongest(x))
    BY <2>1 DEF Blank
  <2> HIDE DEF x
  <2>6. x \in SpokenOf(c) <=> Speaking(x) # {}
    BY <1>1, <2>1, <2>5 DEF Obeys
  <2>7. x \in SpokenOf(c) => c.env[v] = Says(x, NULL)
    BY <1>1, <2>1, <2>3, <2>4, <2>5, <2>6 DEF Obeys
  <2> QED
    BY <1>2, <2>2, <2>6, <2>7 DEF x
<1>6. DOMAIN sandbox.got.env \subseteq Vars
  BY <1>1, <1>2 DEF Obeys, Context, ContextType
<1>7. c.persistent = {p \in Paths : SomeLayerSays(<<"persist", p>>, TRUE)}
  <2>1. ASSUME NEW p \in Paths
        PROVE  p \in c.persistent <=> SomeLayerSays(<<"persist", p>>, TRUE)
    <3> DEFINE x == <<"persist", p>>
    <3>1. x \in Settings /\ x[1] = "persist" /\ x[2] = p
      BY DEF Settings
    <3>2. p \in c.persistent <=> x \in SpokenOf(c)
      BY <3>1 DEF SpokenOf
    <3>3. WordOf(c, x) = TRUE /\ ~Blank(x, Strongest(x))
      BY <3>1 DEF WordOf, Blank
    <3> HIDE DEF x
    <3>4. x \in SpokenOf(c) => SomeLayerSays(x, TRUE)
      BY <1>1, <3>3 DEF Obeys, SomeLayerSays
    <3>5. SomeLayerSays(x, TRUE) => x \in SpokenOf(c)
      BY <1>1, <3>1, <3>3 DEF Obeys, SomeLayerSays
    <3> QED
      BY <3>2, <3>4, <3>5 DEF x
  <2>2. c.persistent \subseteq Paths
    BY <1>1 DEF Obeys, Context, ContextType
  <2> QED
    BY <2>1, <2>2
<1>8. sandbox.got.persisted =
        IF sandbox.got.home THEN {} ELSE {p \in Paths : SomeLayerSays(<<"persist", p>>, TRUE)}
  BY <1>2, <1>3, <1>7 DEF Persisted
<1> QED
  BY <1>4, <1>5, <1>6, <1>8 DEF LastWordRuns

\* A filesystem that a context exposes.
LEMMA FilesystemWord ==
  ASSUME NEW c, Obeys(c), NEW f \in Filesystems
  PROVE  /\ Says(<<"fs", f>>, FALSE) => f \in DOMAIN c.fs /\ c.fs[f]
         /\ f \in DOMAIN c.fs /\ c.fs[f] =>
              /\ SomeLayerSays(<<"fs", f>>, TRUE)
              /\ <<"fs", f>> \in DOMAIN sandbox.args => sandbox.args[<<"fs", f>>]
<1> DEFINE x == <<"fs", f>>
<1>1. x \in Settings /\ x[1] = "fs" /\ x[2] = f
  BY DEF Settings
<1>2. f \in DOMAIN c.fs <=> x \in SpokenOf(c)
  BY <1>1 DEF SpokenOf
<1>3. WordOf(c, x) = c.fs[f] /\ (f \in DOMAIN c.fs => c.fs[f] \in BOOLEAN)
  BY <1>1 DEF WordOf, Obeys, Context, ContextType
<1>4. Says(x, FALSE) = IF Speaking(x) = {} THEN FALSE ELSE Strongest(x)
  BY SaidOrNot
<1>5. Speaking(x) # {} => Strongest(x) \in BOOLEAN
  BY <1>1 DEF Obeys, ValuesOf
<1>6. Strongest(x) = TRUE => ~Blank(x, Strongest(x))
  BY <1>1 DEF Blank
<1> HIDE DEF x
<1>7. ASSUME Says(x, FALSE) PROVE f \in DOMAIN c.fs /\ c.fs[f]
  <2>1. Speaking(x) # {} /\ Strongest(x) = TRUE
    BY <1>4, <1>5, <1>7
  <2>2. x \in SpokenOf(c) /\ WordOf(c, x) = TRUE
    BY <1>1, <1>6, <2>1 DEF Obeys
  <2> QED
    BY <1>2, <1>3, <2>2
<1>8. ASSUME f \in DOMAIN c.fs, c.fs[f]
      PROVE  SomeLayerSays(x, TRUE) /\ (x \in DOMAIN sandbox.args => sandbox.args[x])
  <2>1. x \in SpokenOf(c) /\ WordOf(c, x) = TRUE
    BY <1>2, <1>3, <1>8
  <2>2. PICK i \in Speaking(x) : Layers[i][x] = TRUE
    BY <2>1 DEF Obeys
  <2>3. x \in DOMAIN sandbox.args => sandbox.args[x] = TRUE
    BY <2>1 DEF Obeys
  <2> QED
    BY <2>2, <2>3 DEF SomeLayerSays
<1> QED
  BY <1>7, <1>8 DEF x

LEMMA ExposedHolds == ASSUME IInv PROVE ExposedAsSaid
<1> SUFFICES ASSUME Judged PROVE ExposedAsSaid
  BY DEF ExposedAsSaid
<1>0. PICK c : Obeys(c) /\ \E socket \in BOOLEAN : sandbox.got = Arguments(c, socket, sandbox.found)
  BY SandboxObeys
<1>1. PICK socket \in BOOLEAN : Obeys(c) /\ sandbox.got = Arguments(c, socket, sandbox.found)
  BY <1>0
<1>2. sandbox.got.mounts = Mounts(c, sandbox.found)
  BY <1>1 DEF Arguments
<1>3. sandbox.got.home <=> home_access(c)
  BY <1>1 DEF Arguments
<1>4. ASSUME NEW f \in Home \cup (sandbox.found \ (TildeDirs \cup Disabled)),
             Says(<<"fs", f>>, FALSE)
      PROVE  Exposed(f)
  <2>1. sandbox.found \subseteq Dirs
    BY FilesystemsAssumption DEF IInv, SandboxMade, Judged
  <2>2. f \in DOMAIN c.fs /\ c.fs[f]
    BY <1>1, <1>4, <2>1, FilesystemWord DEF Filesystems
  <2>3. CASE f \in Home
    BY <1>3, <2>2, <2>3 DEF Exposed, home_access
  <2>4. CASE f \notin Home
    <3>1. f \in sandbox.found /\ (f \in OtherDirs \/ f \in XdgDirs \ Disabled)
      BY <2>1, <2>4 DEF Dirs
    <3>2. f \in Mounts(c, sandbox.found) \/ (f \in XdgDirs /\ home_access(c))
      BY <2>2, <3>1 DEF Mounts
    <3> QED
      BY <1>2, <1>3, <2>4, <3>2 DEF Exposed
  <2> QED
    BY <2>3, <2>4
<1>5. ASSUME NEW f \in sandbox.got.mounts
      PROVE  /\ SomeLayerSays(<<"fs", f>>, TRUE)
             /\ <<"fs", f>> \in DOMAIN sandbox.args => sandbox.args[<<"fs", f>>]
  <2>1. f \in Filesystems /\ f \in DOMAIN c.fs /\ c.fs[f]
    BY <1>2 DEF Mounts, Filesystems, Dirs
  <2> QED
    BY <1>1, <2>1, FilesystemWord
<1>6. ASSUME sandbox.got.home
      PROVE  \E f \in Home : /\ SomeLayerSays(<<"fs", f>>, TRUE)
                             /\ <<"fs", f>> \in DOMAIN sandbox.args => sandbox.args[<<"fs", f>>]
  <2>1. PICK f \in Home : f \in DOMAIN c.fs /\ c.fs[f]
    BY <1>3, <1>6 DEF home_access
  <2>2. f \in Filesystems
    BY DEF Filesystems
  <2> QED
    BY <1>1, <2>1, <2>2, FilesystemWord
<1> QED
  BY <1>4, <1>5, <1>6 DEF ExposedAsSaid

LEMMA NamesHold == ASSUME IInv PROVE NamesAsSaid
<1> SUFFICES ASSUME Judged PROVE NamesAsSaid
  BY DEF NamesAsSaid
<1>0. PICK c : Obeys(c) /\ \E socket \in BOOLEAN : sandbox.got = Arguments(c, socket, sandbox.found)
  BY SandboxObeys
<1>1. PICK socket \in BOOLEAN : Obeys(c) /\ sandbox.got = Arguments(c, socket, sandbox.found)
  BY <1>0
<1>2. /\ sandbox.got.enabled = c.enabled
      /\ sandbox.got.bus =
           xdg_app_run_add_session_dbus_args(SessionBus \in c.enabled, socket)
      /\ sandbox.got.names = IF SessionBus \in c.enabled THEN Nothing ELSE BusFilters(c)
  BY <1>1 DEF Arguments
<1>3. sandbox.got.bus # "filtered" <=> SessionBus \in c.enabled
  BY <1>2 DEF xdg_app_run_add_session_dbus_args
<1>4. SessionBus \in c.enabled <=> Says(<<"flag", SessionBus>>, FALSE)
  BY <1>2, LastWordHolds, NamesAssumption DEF LastWordRuns
<1>5. ASSUME sandbox.got.bus = "filtered" PROVE sandbox.got.names = BusFilters(c)
  BY <1>2, <1>3, <1>5
<1>6. c.policy \in [DOMAIN c.policy -> NONE .. OWN] /\ DOMAIN c.policy \subseteq BusNames
  BY <1>1 DEF Obeys, Context, ContextType
<1>7. /\ DOMAIN BusFilters(c) = {n \in DOMAIN c.policy : c.policy[n] > NONE} \cup {AppId}
      /\ \A n \in DOMAIN BusFilters(c) :
           BusFilters(c)[n] = IF n \in DOMAIN c.policy /\ c.policy[n] > NONE
                                THEN c.policy[n] ELSE OWN
  BY DEF BusFilters, InsertAll, Insert, Nothing
<1>8. ASSUME NEW n \in BusNames
      PROVE  LET level == Says(<<"policy", n>>, NONE)
             IN level > NONE => n \in DOMAIN BusFilters(c) /\ BusFilters(c)[n] = level
  <2> DEFINE x == <<"policy", n>>
             level == Says(x, NONE)
  <2>1. x \in Settings /\ x[1] = "policy" /\ x[2] = n
    BY DEF Settings
  <2>2. (n \in DOMAIN c.policy <=> x \in SpokenOf(c)) /\ WordOf(c, x) = c.policy[n]
    BY <2>1 DEF SpokenOf, WordOf
  <2>3. level = IF Speaking(x) = {} THEN NONE ELSE Strongest(x)
    BY SaidOrNot
  <2>4. Blank(x, Strongest(x)) => Strongest(x) = NONE
    BY <2>1 DEF Blank
  <2> HIDE DEF x, level
  <2>5. ASSUME level > NONE
        PROVE  n \in DOMAIN BusFilters(c) /\ BusFilters(c)[n] = level
    <3>1. Speaking(x) # {} /\ Strongest(x) = level /\ ~Blank(x, Strongest(x))
      BY <2>3, <2>4, <2>5 DEF NONE
    <3>2. n \in DOMAIN c.policy /\ c.policy[n] = level
      BY <1>1, <2>1, <2>2, <3>1 DEF Obeys
    <3> QED
      BY <1>7, <2>5, <3>2
  <2> QED
    BY <2>5 DEF x, level
<1>9. ASSUME NEW n \in DOMAIN BusFilters(c)
      PROVE  \/ SomeLayerSays(<<"policy", n>>, BusFilters(c)[n])
             \/ n = AppId /\ BusFilters(c)[n] = OWN
  <2>1. CASE n \in DOMAIN c.policy /\ c.policy[n] > NONE
    <3> DEFINE x == <<"policy", n>>
    <3>1. x \in Settings /\ x[1] = "policy" /\ x[2] = n
      BY <1>6, <2>1 DEF Settings
    <3>2. x \in SpokenOf(c) /\ WordOf(c, x) = BusFilters(c)[n]
      BY <1>7, <2>1, <3>1 DEF SpokenOf, WordOf
    <3> HIDE DEF x
    <3>3. SomeLayerSays(x, BusFilters(c)[n])
      BY <1>1, <3>2 DEF Obeys, SomeLayerSays
    <3> QED
      BY <3>3 DEF x
  <2>2. CASE ~(n \in DOMAIN c.policy /\ c.policy[n] > NONE)
    BY <1>7, <2>2
  <2> QED
    BY <2>1, <2>2
<1> QED
  BY <1>3, <1>4, <1>5, <1>8, <1>9 DEF NamesAsSaid

\* Every reachable state has types, words, files and a sandbox as IInv says.
THEOREM ContextInvariant == Spec => []IInv
<1>1. Init => IInv
  BY InvInit
<1>2. IInv /\ [Next]_vars => IInv'
  BY InvStep
<1> QED
  BY <1>1, <1>2, PTL DEF Spec

-----------------------------------------------------------------------------
(* The theorems.                                                           *)

\* Every variable has its type in every reachable state: a context never has a
\* flag on that it does not also have as said, so that a later file can turn
\* it off.
THEOREM TypeCorrect == Spec => []TypeOK
<1>1. IInv => TypeOK
  BY DEF IInv
<1> QED
  BY <1>1, ContextInvariant, PTL

\* Whatever commands and administrators wrote, what a sandbox gets of a flag
\* or a variable is the strongest layer's last word on it, and it persists
\* what anyone said (xdg_app_context_merge, xdg_app_run_add_environment_args).
THEOREM LastWordAlwaysRuns == Spec => []LastWordRuns
<1>1. IInv => LastWordRuns
  BY LastWordHolds
<1> QED
  BY <1>1, ContextInvariant, PTL

\* A filesystem that the last word exposes is exposed, and none is that no
\* layer exposed or the command line took away, through any number of files
\* loaded and saved (xdg_app_context_load_metadata and _save_metadata).
THEOREM ExposedAlwaysAsSaid == Spec => []ExposedAsSaid
<1>1. IInv => ExposedAsSaid
  BY ExposedHolds
<1> QED
  BY <1>1, ContextInvariant, PTL

\* The bus is unfiltered only by the last word on its socket, and the proxy's
\* table grants what the last word grants and no other name but the app's
\* (xdg_app_add_bus_filters).
THEOREM NamesAlwaysAsSaid == Spec => []NamesAsSaid
<1>1. IInv => NamesAsSaid
  BY NamesHold
<1> QED
  BY <1>1, ContextInvariant, PTL

-----------------------------------------------------------------------------
(* The helper: its processes and their descriptors.                        *)


\* The processes start one after the other, and pid 1 takes the app with it.
Started ==
  /\ main.at \in {"run", "spawned", "syncing", "helper"} => init = "none"
  /\ main.at \in {"cloned", "monitor", "reads event", "reads signal"} => init # "none"
  /\ init \in {"none", "setup"} => child.at = "none"
  /\ init = "exited" => child.at \in {"none", "reaped", "gone"}
  /\ init \in {"none", "setup", "exited"} => others = 0

\* A launcher goes on from a proxy only when it listens.
ProxyFirst ==
  /\ main.at = "run" => proxy = "none"
  /\ proxy \in {"none", "starting"} => synced = 0
  /\ synced # 0 => "listened" \in seen
  /\ proxy # "none" /\ (main.at = "helper" \/ init # "none") => "listened" \in seen

\* Who has the read end of the pipe while the sandbox is there or on its way,
\* and what the app's process gets of the descriptors of pid 1.
Inherited ==
  /\ main.at = "run" => fds["main"] = {}
  /\ main.at \in {"syncing", "helper"} => fds["main"] \subseteq {"sync read"}
  /\ main.at = "spawned" => fds["main"] \subseteq {"sync read", "sync write"}
  /\ proxy # "none" =>
       /\ main.at \in {"spawned", "syncing", "helper", "cloned"} => "sync read" \in fds["main"]
       /\ init \notin {"none", "exited"} => "sync read" \in fds["init"]
  /\ init = "setup" => fds["init"] \subseteq {"sync read", "event"}
  /\ init = "waits" => "lock" \in fds["init"]
  /\ child.at = "setup" => fds["child"] \subseteq {"sync read", "event"}
  /\ child.at = "starts" => fds["child"] \subseteq {"event"}
  /\ child.at = "runs" => fds["child"] = {}
  /\ proxy = "hung up" => /\ init \in {"none", "exited"}
                          /\ main.at \notin {"spawned", "syncing", "helper", "cloned"}

\* Pid 1 ended or was stopped before it could tell.
Untold == "stopped" \in seen \/ (init = "exited" /\ child.at \in {"none", "gone"})

\* The eventfd has the status from when the child is reaped to when the
\* monitor reads it, which it does before it looks at SIGCHLD.
Told ==
  /\ event # 0 => child.at = "reaped" /\ event = initial_exit_status + 1
  /\ child.at = "reaped" => event # 0 \/ main.at \in Gone
  /\ pending # {} => "stopped" \in seen \/ init = "exited"
  /\ main.at = "reads event" => event # 0 \/ pending # {}
  /\ main.at = "reads signal" => Untold
  /\ main.at = "exited" /\ init # "none" =>
       \/ child.at = "reaped" /\ main.status = initial_exit_status
       \/ main.status = 1 /\ Untold

-----------------------------------------------------------------------------
(* The parts of TypeOK.                                                    *)

MainOK == main \in [at : MainStates, status : 0 .. 255]
ChildOK == child \in [at : ChildStates, status : 0 .. 256]
FdsOK == fds \in [Processes -> SUBSET Descriptors]
SignalsOK == synced \in 0 .. 1 /\ pending \subseteq {"SIGCHLD"}
PlainOK ==
  /\ proxy \in {"none", "starting", "listens"} \cup Gone
  /\ init \in {"none", "setup", "forked", "closed", "waits", "exited"}
  /\ seen \subseteq {"listened", "stopped"}
CountsOK == others \in 0 .. MaxOthers /\ trouble \in 0 .. MaxTrouble

\* The constants as TypeOK needs them.
LEMMA Bounds ==
  MaxOthers \in Nat /\ MaxTrouble \in Nat /\ \A s \in Statuses : s \in 0 .. 255
BY StatusesAssumption, BoundsAssumption

\* The names of the states.
LEMMA States ==
  /\ \A s \in {"run", "spawned", "syncing", "helper", "cloned", "monitor", "reads event",
               "reads signal", "exited", "killed"} : s \in MainStates
  /\ \A s \in {"none", "setup", "starts", "runs", "ended", "reaped", "gone"} : s \in ChildStates
BY DEF MainStates, ChildStates

\* What ends with a status has its type.
LEMMA MainExitsOK ==
  ASSUME NEW v \in 0 .. 255, MainExits(v) PROVE MainOK'
<1>1. "exited" \in MainStates
  BY DEF MainStates
<1>2. QED
  BY <1>1 DEF MainExits, MainOK

LEMMA ChildEndsOK ==
  ASSUME NEW v \in 0 .. 256, ChildEnds(v) PROVE ChildOK'
<1>1. "ended" \in ChildStates
  BY DEF ChildStates
<1>2. QED
  BY <1>1 DEF ChildEnds, ChildOK

\* A process that exits, and one that goes on.
LEMMA Exits ==
  ASSUME NEW v, MainExits(v)
  PROVE  main'.at = "exited" /\ main'.status = v /\ fds' = [fds EXCEPT !["main"] = {}]
BY DEF MainExits

LEMMA Moves ==
  ASSUME MainOK, NEW s, main' = [main EXCEPT !.at = s]
  PROVE  main'.at = s /\ main'.status = main.status
BY DEF MainOK

\* An end of the child leaves the other descriptors alone.
LEMMA ChildEndsInherited ==
  ASSUME ChildOK, FdsOK, Inherited, NEW s, ChildEnds(s), AppSteps PROVE Inherited'
<1>1. child'.at = "ended"
  BY DEF ChildEnds
<1>2. fds'["main"] = fds["main"] /\ fds'["init"] = fds["init"]
  BY DEF ChildEnds, FdsOK, Processes
<1>3. UNCHANGED main /\ UNCHANGED proxy /\ UNCHANGED init
  BY DEF AppSteps
<1>4. QED
  BY <1>1, <1>2, <1>3 DEF Inherited

\* What no step of the launcher or monitor changes.
SameProcesses ==
  /\ proxy' = proxy /\ init' = init /\ child' = child
  /\ others' = others /\ seen' = seen

\* The two ends of the wait for the proxy.
LEMMA SyncCases ==
  ASSUME MainOK, SignalsOK, SyncWithProxy
  PROVE  /\ SameProcesses /\ event' = event /\ pending' = pending /\ main.at = "syncing"
         /\ \/ main'.at = "helper" /\ synced # 0 /\ synced' = 0 /\ fds' = fds
            \/ /\ main'.at = "exited" /\ main'.status = 1 /\ synced' = synced
               /\ fds' = [fds EXCEPT !["main"] = {}]
<1>1. CASE synced = 0
  <2>1. MainExits(1) /\ synced' = synced
    BY <1>1 DEF SyncWithProxy
  <2>2. QED
    BY <2>1, Exits DEF SyncWithProxy, MainSteps, inside, signals, counts, SameProcesses
<1>2. CASE synced # 0
  <2>1. main' = [main EXCEPT !.at = "helper"] /\ synced' = synced - 1 /\ fds' = fds
    BY <1>2 DEF SyncWithProxy
  <2>2. synced' = 0
    BY <1>2, <2>1 DEF SignalsOK
  <2>3. QED
    BY <1>2, <2>1, <2>2, Moves DEF SyncWithProxy, MainSteps, inside, signals, counts,
      SameProcesses
<1>3. QED
  BY <1>1, <1>2

\* What the monitor makes of the eventfd.
LEMMA EventCases ==
  ASSUME MainOK, ReadEvent
  PROVE  /\ SameProcesses /\ synced' = synced /\ pending' = pending /\ main.at = "reads event"
         /\ \/ /\ event # 0 /\ event' = 0 /\ main'.at = "exited" /\ main'.status = event - 1
               /\ fds' = [fds EXCEPT !["main"] = {}]
            \/ event = 0 /\ event' = event /\ main'.at = "reads signal" /\ fds' = fds
<1>1. CASE event # 0
  <2>1. MainExits(event - 1) /\ event' = 0
    BY <1>1 DEF ReadEvent
  <2>2. QED
    BY <1>1, <2>1, Exits DEF ReadEvent, MainSteps, inside, counts, SameProcesses
<1>2. CASE event = 0
  <2>1. main' = [main EXCEPT !.at = "reads signal"] /\ event' = event /\ fds' = fds
    BY <1>2 DEF ReadEvent
  <2>2. QED
    BY <1>2, <2>1, Moves DEF ReadEvent, MainSteps, inside, counts, SameProcesses
<1>3. QED
  BY <1>1, <1>2

\* What the monitor makes of the signalfd.
LEMMA SignalCases ==
  ASSUME MainOK, ReadSignal
  PROVE  /\ SameProcesses /\ synced' = synced /\ event' = event /\ main.at = "reads signal"
         /\ \/ /\ pending' = {} /\ main'.at = "exited" /\ main'.status = 1
               /\ fds' = [fds EXCEPT !["main"] = {}]
            \/ pending' = pending /\ main'.at = "monitor" /\ fds' = fds
<1>1. CASE "SIGCHLD" \in pending
  <2>1. MainExits(1) /\ pending' = {}
    BY <1>1 DEF ReadSignal
  <2>2. QED
    BY <2>1, Exits DEF ReadSignal, MainSteps, inside, counts, SameProcesses
<1>2. CASE "SIGCHLD" \notin pending
  <2>1. main' = [main EXCEPT !.at = "monitor"] /\ pending' = pending /\ fds' = fds
    BY <1>2 DEF ReadSignal
  <2>2. QED
    BY <2>1, Moves DEF ReadSignal, MainSteps, inside, counts, SameProcesses
<1>3. QED
  BY <1>1, <1>2

\* Types: the launcher, helper and monitor.
LEMMA MainStep ==
  ASSUME MainOK, ChildOK, Told, HelperNext
  PROVE  MainOK'
<1>1. CASE Launch
  <2>1. CASE SpawnProxy
    BY <2>1, States
    DEF SpawnProxy, MainAt, inside, signals, counts, MainOK
  <2>2. CASE CloseWriteEnd
    BY <2>2, States
    DEF CloseWriteEnd, MainAt, MainSteps, signals, inside, counts, MainOK
  <2>3. CASE SyncWithProxy
    <3>1. CASE main' = [main EXCEPT !.at = "helper"]
      BY <3>1, States DEF MainOK
    <3>2. CASE MainExits(1)
      BY <3>2, MainExitsOK
    <3>3. QED
      BY <2>3, <3>1, <3>2 DEF SyncWithProxy
  <2>4. CASE RunWithoutProxy
    BY <2>4, States
    DEF RunWithoutProxy, MainAt, MainSteps, signals, inside, counts, MainOK
  <2>5. CASE Clone
    BY <2>5, States
    DEF Clone, MainAt, signals, counts, MainOK
  <2>6. CASE MonitorCloses
    BY <2>6, States
    DEF MonitorCloses, MainAt, close_extra_fds, MainSteps, signals, inside, counts, MainOK
  <2>7. QED
    BY <1>1, <2>1, <2>2, <2>3, <2>4, <2>5, <2>6 DEF Launch
<1>2. CASE monitor_child
  <2>1. CASE MonitorPolls
    BY <2>1, States
    DEF MonitorPolls, MainAt, MainSteps, signals, inside, counts, MainOK
  <2>2. CASE ReadEvent
    <3>1. CASE event = 0
      BY <2>2, <3>1, States DEF ReadEvent, MainOK
    <3>2. CASE event # 0
      <4>1. event = initial_exit_status + 1
        BY <3>2 DEF Told
      <4>2. initial_exit_status \in 0 .. 255
        BY DEF initial_exit_status, ChildOK
      <4>3. event - 1 \in 0 .. 255
        BY <4>1, <4>2
      <4>4. MainExits(event - 1)
        BY <2>2, <3>2 DEF ReadEvent
      <4>5. QED
        BY <4>3, <4>4, MainExitsOK
    <3>3. QED
      BY <3>1, <3>2
  <2>3. CASE ReadSignal
    <3>1. CASE main' = [main EXCEPT !.at = "monitor"]
      BY <3>1, States DEF MainOK
    <3>2. CASE MainExits(1)
      BY <3>2, MainExitsOK
    <3>3. QED
      BY <2>3, <3>1, <3>2 DEF ReadSignal
  <2>4. QED
    BY <1>2, <2>1, <2>2, <2>3 DEF monitor_child
<1>3. CASE ProxyRuns
  BY <1>3, States
  DEF ProxyRuns, ProxyListens, ProxySteps, inside, signals, sync_closed_cb, Readers,
      ProxyEnds, MainOK
<1>4. CASE InitRuns
  BY <1>4, States
  DEF InitRuns, do_init, Fork, InitSteps, signals, counts, InitCloses, close_extra_fds,
      lock_all_dirs, ReapChild, NoneLeft, InitEnds, MainOK
<1>5. CASE ChildStarts
  BY <1>5, States
  DEF ChildStarts, ChildCloses, AppSteps, signals, counts, Exec, MainOK
<1>6. CASE Fails
  <2>1. CASE RunFails
    BY <2>1, MainExitsOK DEF RunFails
  <2>2. CASE HelperFails
    BY <2>2, MainExitsOK DEF HelperFails
  <2>3. CASE ProxyFails
    BY <2>3, States
    DEF ProxyFails, ProxyEnds, ProxySteps, inside, signals, MainOK
  <2>4. CASE SetupFails
    BY <2>4, States
    DEF SetupFails, InitEnds, InitSteps, counts, MainOK
  <2>5. CASE ExecFails
    BY <2>5, States
    DEF ExecFails, ChildEnds, AppSteps, signals, counts, MainOK
  <2>6. QED
    BY <1>6, <2>1, <2>2, <2>3, <2>4, <2>5 DEF Fails
<1>7. CASE AppRuns
  BY <1>7, States
  DEF AppRuns, AppForks, AppSteps, signals, counts, OtherEnds, AppEnds, ChildEnds, MainOK
<1>8. CASE Trouble
  BY <1>8, States
  DEF Trouble, KillMain, inside, signals, KillInit, InitEnds, KillProxy, ProxyEnds,
      StopInit, MainOK
<1>9. QED
  BY <1>1, <1>2, <1>3, <1>4, <1>5, <1>6, <1>7, <1>8 DEF HelperNext

\* Types: the first process of the app.
LEMMA ChildStep ==
  ASSUME ChildOK, HelperNext
  PROVE  ChildOK'
<1>1. CASE Launch
  BY <1>1, States
  DEF Launch, SpawnProxy, MainAt, inside, signals, counts, CloseWriteEnd, MainSteps,
      SyncWithProxy, Writers, MainExits, RunWithoutProxy, Clone, MonitorCloses,
      close_extra_fds, ChildOK
<1>2. CASE monitor_child
  BY <1>2, States
  DEF monitor_child, MonitorPolls, MainAt, MainSteps, signals, inside, counts, ReadEvent,
      MainExits, ReadSignal, ChildOK
<1>3. CASE ProxyRuns
  BY <1>3, States
  DEF ProxyRuns, ProxyListens, ProxySteps, inside, signals, sync_closed_cb, Readers,
      ProxyEnds, ChildOK
<1>4. CASE InitRuns
  BY <1>4, States
  DEF InitRuns, do_init, Fork, InitSteps, signals, counts, InitCloses, close_extra_fds,
      lock_all_dirs, ReapChild, NoneLeft, InitEnds, ChildOK
<1>5. CASE ChildStarts
  BY <1>5, States
  DEF ChildStarts, ChildCloses, AppSteps, signals, counts, Exec, ChildOK
<1>6. CASE Fails
  <2>1. CASE RunFails
    BY <2>1, States
    DEF RunFails, MainExits, MainSteps, signals, inside, counts, ChildOK
  <2>2. CASE HelperFails
    BY <2>2, States
    DEF HelperFails, MainExits, MainSteps, signals, inside, counts, ChildOK
  <2>3. CASE ProxyFails
    BY <2>3, States
    DEF ProxyFails, ProxyEnds, ProxySteps, inside, signals, ChildOK
  <2>4. CASE SetupFails
    BY <2>4, States
    DEF SetupFails, InitEnds, InitSteps, counts, ChildOK
  <2>5. CASE ExecFails
    BY <2>5, ChildEndsOK DEF ExecFails
  <2>6. QED
    BY <1>6, <2>1, <2>2, <2>3, <2>4, <2>5 DEF Fails
<1>7. CASE AppRuns
  <2>1. CASE AppForks \/ OtherEnds
    BY <2>1, States
    DEF AppForks, AppSteps, signals, counts, OtherEnds, ChildOK
  <2>2. CASE AppEnds
    <3>1. PICK s \in Statuses \cup {256} : ChildEnds(s)
      BY <2>2 DEF AppEnds
    <3>2. s \in 0 .. 256
      BY Bounds
    <3>3. QED
      BY <3>1, <3>2, ChildEndsOK
  <2>3. QED
    BY <1>7, <2>1, <2>2 DEF AppRuns
<1>8. CASE Trouble
  BY <1>8, States
  DEF Trouble, KillMain, inside, signals, KillInit, InitEnds, KillProxy, ProxyEnds,
      StopInit, ChildOK
<1>9. QED
  BY <1>1, <1>2, <1>3, <1>4, <1>5, <1>6, <1>7, <1>8 DEF HelperNext

\* Types: the descriptors.
LEMMA FdsStep ==
  ASSUME FdsOK, HelperNext
  PROVE  FdsOK'
<1>1. CASE Launch
  BY <1>1
  DEF Launch, SpawnProxy, MainAt, inside, signals, counts, CloseWriteEnd, MainSteps,
      SyncWithProxy, Writers, MainExits, RunWithoutProxy, Clone, MonitorCloses,
      close_extra_fds, FdsOK, Processes, Descriptors
<1>2. CASE monitor_child
  BY <1>2
  DEF monitor_child, MonitorPolls, MainAt, MainSteps, signals, inside, counts, ReadEvent,
      MainExits, ReadSignal, FdsOK, Processes, Descriptors
<1>3. CASE ProxyRuns
  BY <1>3
  DEF ProxyRuns, ProxyListens, ProxySteps, inside, signals, sync_closed_cb, Readers,
      ProxyEnds, FdsOK, Processes, Descriptors
<1>4. CASE InitRuns
  BY <1>4
  DEF InitRuns, do_init, Fork, InitSteps, signals, counts, InitCloses, close_extra_fds,
      lock_all_dirs, ReapChild, NoneLeft, InitEnds, FdsOK, Processes, Descriptors
<1>5. CASE ChildStarts
  BY <1>5
  DEF ChildStarts, ChildCloses, AppSteps, signals, counts, Exec, FdsOK, Processes,
      Descriptors
<1>6. CASE Fails
  BY <1>6
  DEF Fails, RunFails, MainExits, MainSteps, signals, inside, counts, HelperFails,
      ProxyFails, ProxyEnds, ProxySteps, SetupFails, InitEnds, InitSteps, ExecFails,
      ChildEnds, AppSteps, FdsOK, Processes, Descriptors
<1>7. CASE AppRuns
  <2>1. CASE AppForks \/ OtherEnds
    BY <2>1
    DEF AppForks, AppSteps, signals, counts, OtherEnds, FdsOK, Processes, Descriptors
  <2>2. CASE AppEnds
    <3>1. fds' = [fds EXCEPT !["child"] = {}]
      BY <2>2 DEF AppEnds, ChildEnds
    <3>2. QED
      BY <3>1 DEF FdsOK
  <2>3. QED
    BY <1>7, <2>1, <2>2 DEF AppRuns
<1>8. CASE Trouble
  BY <1>8
  DEF Trouble, KillMain, inside, signals, KillInit, InitEnds, KillProxy, ProxyEnds,
      StopInit, FdsOK, Processes, Descriptors
<1>9. QED
  BY <1>1, <1>2, <1>3, <1>4, <1>5, <1>6, <1>7, <1>8 DEF HelperNext

\* Types: the pipe and the signals.
LEMMA SignalsStep ==
  ASSUME SignalsOK, ProxyFirst, MainOK, HelperNext
  PROVE  SignalsOK'
<1>1. CASE Launch
  <2>1. CASE SpawnProxy \/ CloseWriteEnd \/ RunWithoutProxy \/ Clone \/ MonitorCloses
    BY <2>1
    DEF SpawnProxy, MainAt, inside, signals, counts, CloseWriteEnd, MainSteps,
        RunWithoutProxy, Clone, MonitorCloses, close_extra_fds, SignalsOK
  <2>2. CASE SyncWithProxy
    <3>1. (synced' = 0 \/ synced' = synced) /\ pending' = pending
      BY <2>2, SyncCases
    <3>2. QED
      BY <3>1 DEF SignalsOK
  <2>3. QED
    BY <1>1, <2>1, <2>2 DEF Launch
<1>2. CASE monitor_child
  <2>1. CASE MonitorPolls \/ ReadEvent
    BY <2>1
    DEF MonitorPolls, MainAt, MainSteps, signals, inside, counts, ReadEvent, MainExits,
        SignalsOK
  <2>2. CASE ReadSignal
    BY <2>2, SignalCases DEF SignalsOK
  <2>3. QED
    BY <1>2, <2>1, <2>2 DEF monitor_child
<1>3. CASE ProxyRuns
  <2>1. CASE sync_closed_cb
    BY <2>1
    DEF sync_closed_cb, Readers, ProxyEnds, ProxySteps, inside, signals, SignalsOK
  <2>2. CASE ProxyListens
    BY <2>2 DEF ProxyListens, ProxySteps, signals, ProxyFirst, SignalsOK
  <2>3. QED
    BY <1>3, <2>1, <2>2 DEF ProxyRuns
<1>4. CASE InitRuns
  BY <1>4
  DEF InitRuns, do_init, Fork, InitSteps, signals, counts, InitCloses, close_extra_fds,
      lock_all_dirs, ReapChild, NoneLeft, InitEnds, SignalsOK
<1>5. CASE ChildStarts
  BY <1>5
  DEF ChildStarts, ChildCloses, AppSteps, signals, counts, Exec, SignalsOK
<1>6. CASE Fails
  BY <1>6
  DEF Fails, RunFails, MainExits, MainSteps, signals, inside, counts, HelperFails,
      ProxyFails, ProxyEnds, ProxySteps, SetupFails, InitEnds, InitSteps, ExecFails,
      ChildEnds, AppSteps, SignalsOK
<1>7. CASE AppRuns
  <2>1. UNCHANGED synced /\ UNCHANGED pending
    BY <1>7 DEF AppRuns, AppForks, OtherEnds, AppEnds, AppSteps, signals
  <2>2. QED
    BY <2>1 DEF SignalsOK
<1>8. CASE Trouble
  BY <1>8
  DEF Trouble, KillMain, inside, signals, KillInit, InitEnds, KillProxy, ProxyEnds,
      StopInit, SignalsOK
<1>9. QED
  BY <1>1, <1>2, <1>3, <1>4, <1>5, <1>6, <1>7, <1>8 DEF HelperNext

\* Types: proxy, pid 1 and the history.
LEMMA PlainStep ==
  ASSUME PlainOK, HelperNext
  PROVE  PlainOK'
<1>1. CASE Launch
  BY <1>1
  DEF Launch, SpawnProxy, MainAt, inside, signals, counts, CloseWriteEnd, MainSteps,
      SyncWithProxy, Writers, MainExits, RunWithoutProxy, Clone, MonitorCloses,
      close_extra_fds, PlainOK, Gone
<1>2. CASE monitor_child
  BY <1>2
  DEF monitor_child, MonitorPolls, MainAt, MainSteps, signals, inside, counts, ReadEvent,
      MainExits, ReadSignal, PlainOK, Gone
<1>3. CASE ProxyRuns
  BY <1>3
  DEF ProxyRuns, ProxyListens, ProxySteps, inside, signals, sync_closed_cb, Readers,
      ProxyEnds, PlainOK, Gone
<1>4. CASE InitRuns
  BY <1>4
  DEF InitRuns, do_init, Fork, InitSteps, signals, counts, InitCloses, close_extra_fds,
      lock_all_dirs, ReapChild, NoneLeft, InitEnds, PlainOK, Gone
<1>5. CASE ChildStarts
  BY <1>5
  DEF ChildStarts, ChildCloses, AppSteps, signals, counts, Exec, PlainOK, Gone
<1>6. CASE Fails
  BY <1>6
  DEF Fails, RunFails, MainExits, MainSteps, signals, inside, counts, HelperFails,
      ProxyFails, ProxyEnds, ProxySteps, SetupFails, InitEnds, InitSteps, ExecFails,
      ChildEnds, AppSteps, PlainOK, Gone
<1>7. CASE AppRuns
  <2>1. UNCHANGED proxy /\ UNCHANGED init /\ UNCHANGED seen
    BY <1>7 DEF AppRuns, AppForks, OtherEnds, AppEnds, AppSteps, counts
  <2>2. QED
    BY <2>1 DEF PlainOK
<1>8. CASE Trouble
  BY <1>8
  DEF Trouble, KillMain, inside, signals, KillInit, InitEnds, KillProxy, ProxyEnds,
      StopInit, PlainOK, Gone
<1>9. QED
  BY <1>1, <1>2, <1>3, <1>4, <1>5, <1>6, <1>7, <1>8 DEF HelperNext

\* Types: the counters.
LEMMA CountsStep ==
  ASSUME CountsOK, HelperNext
  PROVE  CountsOK'
<1>1. CASE Launch
  BY <1>1, Bounds
  DEF Launch, SpawnProxy, MainAt, inside, signals, counts, CloseWriteEnd, MainSteps,
      SyncWithProxy, Writers, MainExits, RunWithoutProxy, Clone, MonitorCloses,
      close_extra_fds, CountsOK
<1>2. CASE monitor_child
  BY <1>2, Bounds
  DEF monitor_child, MonitorPolls, MainAt, MainSteps, signals, inside, counts, ReadEvent,
      MainExits, ReadSignal, CountsOK
<1>3. CASE ProxyRuns
  BY <1>3, Bounds
  DEF ProxyRuns, ProxyListens, ProxySteps, inside, signals, sync_closed_cb, Readers,
      ProxyEnds, CountsOK
<1>4. CASE InitRuns
  BY <1>4, Bounds
  DEF InitRuns, do_init, Fork, InitSteps, signals, counts, InitCloses, close_extra_fds,
      lock_all_dirs, ReapChild, NoneLeft, InitEnds, CountsOK
<1>5. CASE ChildStarts
  BY <1>5, Bounds
  DEF ChildStarts, ChildCloses, AppSteps, signals, counts, Exec, CountsOK
<1>6. CASE Fails
  BY <1>6, Bounds
  DEF Fails, RunFails, MainExits, MainSteps, signals, inside, counts, HelperFails,
      ProxyFails, ProxyEnds, ProxySteps, SetupFails, InitEnds, InitSteps, ExecFails,
      ChildEnds, AppSteps, CountsOK
<1>7. CASE AppRuns
  <2>1. trouble' = trouble
    BY <1>7 DEF AppRuns, AppForks, OtherEnds, AppEnds, AppSteps, counts
  <2>2. others' = others \/ (others < MaxOthers /\ others' = others + 1)
        \/ (others > 0 /\ others' = others - 1)
    BY <1>7 DEF AppRuns, AppForks, OtherEnds, AppEnds
  <2>3. QED
    BY <2>1, <2>2, Bounds DEF CountsOK
<1>8. CASE Trouble
  <2>1. trouble' \in 0 .. MaxTrouble
    BY <1>8, Bounds DEF Trouble, CountsOK
  <2>2. others' \in {others, 0}
    BY <1>8 DEF Trouble, KillMain, KillInit, KillProxy, StopInit, InitEnds, inside
  <2>3. QED
    BY <2>1, <2>2, Bounds DEF CountsOK
<1>9. QED
  BY <1>1, <1>2, <1>3, <1>4, <1>5, <1>6, <1>7, <1>8 DEF HelperNext

\* The order of the processes.
LEMMA StartedStep ==
  ASSUME MainOK, ChildOK, SignalsOK, CountsOK, Started, HelperNext
  PROVE  Started'
<1>1. CASE Launch
  <2>1. CASE SpawnProxy
    BY <2>1
    DEF SpawnProxy, MainAt, inside, signals, counts, MainOK, ChildOK, Started
  <2>2. CASE CloseWriteEnd
    BY <2>2
    DEF CloseWriteEnd, MainAt, MainSteps, signals, inside, counts, MainOK, ChildOK, Started
  <2>3. CASE SyncWithProxy
    BY <2>3, SyncCases DEF MainOK, ChildOK, Started, SameProcesses
  <2>4. CASE RunWithoutProxy
    BY <2>4
    DEF RunWithoutProxy, MainAt, MainSteps, signals, inside, counts, MainOK, ChildOK,
        Started
  <2>5. CASE Clone
    BY <2>5
    DEF Clone, MainAt, signals, counts, MainOK, ChildOK, Started
  <2>6. CASE MonitorCloses
    BY <2>6
    DEF MonitorCloses, MainAt, close_extra_fds, MainSteps, signals, inside, counts, MainOK,
        ChildOK, Started
  <2>7. QED
    BY <1>1, <2>1, <2>2, <2>3, <2>4, <2>5, <2>6 DEF Launch
<1>2. CASE monitor_child
  <2>1. CASE MonitorPolls
    BY <2>1
    DEF MonitorPolls, MainAt, MainSteps, signals, inside, counts, MainOK, ChildOK, Started
  <2>2. CASE ReadEvent
    BY <2>2, EventCases DEF MainOK, ChildOK, Started, SameProcesses
  <2>3. CASE ReadSignal
    BY <2>3, SignalCases DEF MainOK, ChildOK, Started, SameProcesses
  <2>4. QED
    BY <1>2, <2>1, <2>2, <2>3 DEF monitor_child
<1>3. CASE ProxyRuns
  BY <1>3
  DEF ProxyRuns, ProxyListens, ProxySteps, inside, signals, sync_closed_cb, Readers,
      ProxyEnds, MainOK, ChildOK, Started
<1>4. CASE InitRuns
  BY <1>4
  DEF InitRuns, do_init, Fork, InitSteps, signals, counts, InitCloses, close_extra_fds,
      lock_all_dirs, ReapChild, NoneLeft, InitEnds, MainOK, ChildOK, Started
<1>5. CASE ChildStarts
  BY <1>5
  DEF ChildStarts, ChildCloses, AppSteps, signals, counts, Exec, MainOK, ChildOK, Started
<1>6. CASE Fails
  <2>1. CASE RunFails
    BY <2>1
    DEF RunFails, MainExits, MainSteps, signals, inside, counts, MainOK, ChildOK, Started
  <2>2. CASE HelperFails
    BY <2>2
    DEF HelperFails, MainExits, MainSteps, signals, inside, counts, MainOK, ChildOK, Started
  <2>3. CASE ProxyFails
    BY <2>3
    DEF ProxyFails, ProxyEnds, ProxySteps, inside, signals, MainOK, ChildOK, Started
  <2>4. CASE SetupFails
    BY <2>4
    DEF SetupFails, InitEnds, InitSteps, counts, MainOK, ChildOK, Started
  <2>5. CASE ExecFails
    BY <2>5
    DEF ExecFails, ChildEnds, AppSteps, signals, counts, MainOK, ChildOK, Started
  <2>6. QED
    BY <1>6, <2>1, <2>2, <2>3, <2>4, <2>5 DEF Fails
<1>7. CASE AppRuns
  <2>1. CASE AppEnds
    BY <2>1
    DEF AppEnds, ChildEnds, AppSteps, signals, counts, MainOK, ChildOK, Started
  <2>2. CASE AppForks
    <3>1. others # 0 \/ child.at = "runs"
      BY <2>2, Bounds DEF AppForks, CountsOK
    <3>2. init \notin {"none", "setup", "exited"}
      BY <3>1 DEF Started
    <3>3. QED
      BY <2>2, <3>2 DEF AppForks, AppSteps, Started
  <2>3. CASE OtherEnds
    <3>1. others # 0
      BY <2>3, Bounds DEF OtherEnds, CountsOK
    <3>2. init \notin {"none", "setup", "exited"}
      BY <3>1 DEF Started
    <3>3. QED
      BY <2>3, <3>2 DEF OtherEnds, AppSteps, Started
  <2>4. QED
    BY <1>7, <2>1, <2>2, <2>3 DEF AppRuns
<1>8. CASE Trouble
  BY <1>8
  DEF Trouble, KillMain, inside, signals, KillInit, InitEnds, KillProxy, ProxyEnds,
      StopInit, MainOK, ChildOK, Started
<1>9. QED
  BY <1>1, <1>2, <1>3, <1>4, <1>5, <1>6, <1>7, <1>8 DEF HelperNext

\* The proxy listens before it is used.
LEMMA ProxyFirstStep ==
  ASSUME MainOK, SignalsOK, Started, ProxyFirst, HelperNext
  PROVE  ProxyFirst'
<1>1. CASE Launch
  <2>1. CASE SpawnProxy \/ CloseWriteEnd \/ RunWithoutProxy \/ Clone \/ MonitorCloses
    BY <2>1
    DEF SpawnProxy, MainAt, inside, signals, counts, CloseWriteEnd, MainSteps,
        RunWithoutProxy, Clone, MonitorCloses, close_extra_fds, MainOK, Started, ProxyFirst
  <2>2. CASE SyncWithProxy
    BY <2>2, SyncCases DEF MainOK, Started, ProxyFirst, SameProcesses
  <2>3. QED
    BY <1>1, <2>1, <2>2 DEF Launch
<1>2. CASE monitor_child
  <2>1. CASE MonitorPolls
    BY <2>1
    DEF MonitorPolls, MainAt, MainSteps, signals, inside, counts, MainOK, Started,
        ProxyFirst
  <2>2. CASE ReadEvent
    BY <2>2, EventCases DEF MainOK, Started, ProxyFirst, SameProcesses
  <2>3. CASE ReadSignal
    BY <2>3, SignalCases DEF MainOK, Started, ProxyFirst, SameProcesses
  <2>4. QED
    BY <1>2, <2>1, <2>2, <2>3 DEF monitor_child
<1>3. CASE ProxyRuns
  BY <1>3
  DEF ProxyRuns, ProxyListens, ProxySteps, inside, signals, sync_closed_cb, Readers,
      ProxyEnds, MainOK, Started, ProxyFirst
<1>4. CASE InitRuns
  BY <1>4
  DEF InitRuns, do_init, Fork, InitSteps, signals, counts, InitCloses, close_extra_fds,
      lock_all_dirs, ReapChild, NoneLeft, InitEnds, MainOK, Started, ProxyFirst
<1>5. CASE ChildStarts
  BY <1>5
  DEF ChildStarts, ChildCloses, AppSteps, signals, counts, Exec, MainOK, Started, ProxyFirst
<1>6. CASE Fails
  <2>1. CASE RunFails
    BY <2>1
    DEF RunFails, MainExits, MainSteps, signals, inside, counts, MainOK, Started, ProxyFirst
  <2>2. CASE HelperFails
    BY <2>2
    DEF HelperFails, MainExits, MainSteps, signals, inside, counts, MainOK, Started,
        ProxyFirst
  <2>3. CASE ProxyFails
    BY <2>3
    DEF ProxyFails, ProxyEnds, ProxySteps, inside, signals, MainOK, Started, ProxyFirst
  <2>4. CASE SetupFails
    BY <2>4
    DEF SetupFails, InitEnds, InitSteps, counts, MainOK, Started, ProxyFirst
  <2>5. CASE ExecFails
    BY <2>5
    DEF ExecFails, ChildEnds, AppSteps, signals, counts, MainOK, Started, ProxyFirst
  <2>6. QED
    BY <1>6, <2>1, <2>2, <2>3, <2>4, <2>5 DEF Fails
<1>7. CASE AppRuns
  BY <1>7
  DEF AppRuns, AppForks, AppSteps, signals, counts, OtherEnds, AppEnds, ChildEnds, MainOK,
      Started, ProxyFirst
<1>8. CASE Trouble
  BY <1>8
  DEF Trouble, KillMain, inside, signals, KillInit, InitEnds, KillProxy, ProxyEnds,
      StopInit, MainOK, Started, ProxyFirst
<1>9. QED
  BY <1>1, <1>2, <1>3, <1>4, <1>5, <1>6, <1>7, <1>8 DEF HelperNext

\* The descriptors.
LEMMA InheritedStep ==
  ASSUME MainOK, ChildOK, FdsOK, SignalsOK, Started, ProxyFirst, Inherited, HelperNext
  PROVE  Inherited'
<1>1. CASE Launch
  <2>1. CASE SpawnProxy
    BY <2>1
    DEF SpawnProxy, MainAt, inside, signals, counts, MainOK, ChildOK, FdsOK, Processes,
        Started, Inherited
  <2>2. CASE CloseWriteEnd
    BY <2>2
    DEF CloseWriteEnd, MainAt, MainSteps, signals, inside, counts, MainOK, ChildOK, FdsOK,
        Processes, Started, Inherited
  <2>3. CASE SyncWithProxy
    BY <2>3, SyncCases DEF MainOK, ChildOK, FdsOK, Processes, Started, Inherited, SameProcesses
  <2>4. CASE RunWithoutProxy
    <3>1. main'.at = "helper"
      BY <2>4, Moves DEF RunWithoutProxy, MainAt
    <3>2. QED
      BY <2>4, <3>1 DEF RunWithoutProxy, MainAt, MainSteps, inside, ProxyFirst, Inherited, Started
  <2>5. CASE Clone
    BY <2>5
    DEF Clone, MainAt, signals, counts, MainOK, ChildOK, FdsOK, Processes, Started,
        Inherited
  <2>6. CASE MonitorCloses
    BY <2>6
    DEF MonitorCloses, MainAt, close_extra_fds, MainSteps, signals, inside, counts, MainOK,
        ChildOK, FdsOK, Processes, Started, Inherited
  <2>7. QED
    BY <1>1, <2>1, <2>2, <2>3, <2>4, <2>5, <2>6 DEF Launch
<1>2. CASE monitor_child
  <2>1. CASE MonitorPolls
    BY <2>1
    DEF MonitorPolls, MainAt, MainSteps, signals, inside, counts, MainOK, ChildOK, FdsOK,
        Processes, Started, Inherited
  <2>2. CASE ReadEvent
    BY <2>2, EventCases DEF MainOK, ChildOK, FdsOK, Processes, Started, Inherited, SameProcesses
  <2>3. CASE ReadSignal
    <3>1. CASE fds' = fds /\ main'.at = "monitor" /\ SameProcesses
      BY <3>1 DEF Inherited, SameProcesses
    <3>2. CASE fds' = [fds EXCEPT !["main"] = {}] /\ main'.at = "exited" /\ SameProcesses
      BY <3>2 DEF Inherited, SameProcesses, FdsOK, Processes
    <3>3. QED
      BY <2>3, <3>1, <3>2, SignalCases
  <2>4. QED
    BY <1>2, <2>1, <2>2, <2>3 DEF monitor_child
<1>3. CASE ProxyRuns
  BY <1>3
  DEF ProxyRuns, ProxyListens, ProxySteps, inside, signals, sync_closed_cb, Readers,
      ProxyEnds, MainOK, ChildOK, FdsOK, Processes, Started, Inherited
<1>4. CASE InitRuns
  <2>1. CASE Fork
    BY <2>1
    DEF Fork, InitSteps, signals, counts, MainOK, ChildOK, FdsOK, Processes, Started,
        Inherited
  <2>2. CASE InitCloses
    BY <2>2
    DEF InitCloses, close_extra_fds, InitSteps, signals, counts, MainOK, ChildOK, FdsOK,
        Processes, Started, Inherited
  <2>3. CASE lock_all_dirs
    BY <2>3
    DEF lock_all_dirs, InitSteps, signals, counts, MainOK, ChildOK, FdsOK, Processes,
        Started, Inherited
  <2>4. CASE ReapChild
    BY <2>4
    DEF ReapChild, InitSteps, counts, MainOK, ChildOK, FdsOK, Processes, Started, Inherited
  <2>5. CASE NoneLeft
    BY <2>5
    DEF NoneLeft, InitEnds, InitSteps, counts, MainOK, ChildOK, FdsOK, Processes, Started,
        Inherited
  <2>6. QED
    BY <1>4, <2>1, <2>2, <2>3, <2>4, <2>5 DEF InitRuns, do_init
<1>5. CASE ChildStarts
  <2>1. CASE ChildCloses
    BY <2>1
    DEF ChildCloses, AppSteps, signals, counts, MainOK, ChildOK, FdsOK, Processes, Started,
        Inherited
  <2>2. CASE Exec
    BY <2>2
    DEF Exec, AppSteps, signals, counts, MainOK, ChildOK, FdsOK, Processes, Started,
        Inherited
  <2>3. QED
    BY <1>5, <2>1, <2>2 DEF ChildStarts
<1>6. CASE Fails
  <2>1. CASE RunFails
    BY <2>1
    DEF RunFails, MainExits, MainSteps, signals, inside, counts, MainOK, ChildOK, FdsOK,
        Processes, Started, Inherited
  <2>2. CASE HelperFails
    BY <2>2
    DEF HelperFails, MainExits, MainSteps, signals, inside, counts, MainOK, ChildOK, FdsOK,
        Processes, Started, Inherited
  <2>3. CASE ProxyFails
    BY <2>3
    DEF ProxyFails, ProxyEnds, ProxySteps, inside, signals, MainOK, ChildOK, FdsOK,
        Processes, Started, Inherited
  <2>4. CASE SetupFails
    BY <2>4
    DEF SetupFails, InitEnds, InitSteps, counts, MainOK, ChildOK, FdsOK, Processes, Started,
        Inherited
  <2>5. CASE ExecFails
    BY <2>5
    DEF ExecFails, ChildEnds, AppSteps, signals, counts, MainOK, ChildOK, FdsOK, Processes,
        Started, Inherited
  <2>6. QED
    BY <1>6, <2>1, <2>2, <2>3, <2>4, <2>5 DEF Fails
<1>7. CASE AppRuns
  <2>1. CASE AppForks \/ OtherEnds
    BY <2>1
    DEF AppForks, AppSteps, signals, counts, OtherEnds, MainOK, ChildOK, FdsOK, Processes,
        Started, Inherited
  <2>2. CASE AppEnds
    <3>1. PICK s \in Statuses \cup {256} : ChildEnds(s)
      BY <2>2 DEF AppEnds
    <3>2. AppSteps
      BY <2>2 DEF AppEnds
    <3>3. QED
      BY <3>1, <3>2, ChildEndsInherited
  <2>3. QED
    BY <1>7, <2>1, <2>2 DEF AppRuns
<1>8. CASE Trouble
  BY <1>8
  DEF Trouble, KillMain, inside, signals, KillInit, InitEnds, KillProxy, ProxyEnds,
      StopInit, MainOK, ChildOK, FdsOK, Processes, Started, Inherited
<1>9. QED
  BY <1>1, <1>2, <1>3, <1>4, <1>5, <1>6, <1>7, <1>8 DEF HelperNext

\* The exit status.
LEMMA ToldStep ==
  ASSUME MainOK, ChildOK, SignalsOK, Started, Told, HelperNext
  PROVE  Told'
<1>1. CASE Launch
  <2>1. CASE SpawnProxy
    BY <2>1
    DEF SpawnProxy, MainAt, inside, signals, counts, MainOK, ChildOK, Started, Told, Untold,
        initial_exit_status, Gone
  <2>2. CASE CloseWriteEnd
    BY <2>2
    DEF CloseWriteEnd, MainAt, MainSteps, signals, inside, counts, MainOK, ChildOK, Started,
        Told, Untold, initial_exit_status, Gone
  <2>3. CASE SyncWithProxy
    BY <2>3, SyncCases DEF MainOK, ChildOK, Started, Told, Untold, initial_exit_status, Gone,
      SameProcesses
  <2>4. CASE RunWithoutProxy
    BY <2>4
    DEF RunWithoutProxy, MainAt, MainSteps, signals, inside, counts, MainOK, ChildOK,
        Started, Told, Untold, initial_exit_status, Gone
  <2>5. CASE Clone
    BY <2>5
    DEF Clone, MainAt, signals, counts, MainOK, ChildOK, Started, Told, Untold,
        initial_exit_status, Gone
  <2>6. CASE MonitorCloses
    BY <2>6
    DEF MonitorCloses, MainAt, close_extra_fds, MainSteps, signals, inside, counts, MainOK,
        ChildOK, Started, Told, Untold, initial_exit_status, Gone
  <2>7. QED
    BY <1>1, <2>1, <2>2, <2>3, <2>4, <2>5, <2>6 DEF Launch
<1>2. CASE monitor_child
  <2>1. CASE MonitorPolls
    BY <2>1
    DEF MonitorPolls, MainAt, MainSteps, signals, inside, counts, MainOK, ChildOK, Started,
        Told, Untold, initial_exit_status, Gone
  <2>2. CASE ReadEvent
    <3>0. SameProcesses /\ pending' = pending
      BY <2>2, EventCases
    <3>1. /\ SameProcesses /\ pending' = pending /\ initial_exit_status \in 0 .. 255
          /\ initial_exit_status' = initial_exit_status
      BY <3>0 DEF SameProcesses, ChildOK, initial_exit_status
    <3>2. CASE event # 0
      <4>1. event = initial_exit_status + 1 /\ child.at = "reaped"
        BY <3>2 DEF Told
      <4>2. main'.status = event - 1 /\ event' = 0 /\ main'.at = "exited"
        BY <2>2, <3>2, EventCases
      <4>3. main'.status = initial_exit_status
        BY <3>1, <4>1, <4>2
      <4>4. QED
        BY <3>1, <4>1, <4>2, <4>3 DEF Told, Untold, SameProcesses, Gone
    <3>3. CASE event = 0
      <4>1. main.at = "reads event" /\ main'.at = "reads signal" /\ event' = event
        BY <2>2, <3>3, EventCases
      <4>2. child.at # "reaped" /\ Untold
        BY <3>3, <4>1 DEF Told, Untold, Gone, Started
      <4>3. QED
        BY <3>1, <3>3, <4>1, <4>2 DEF Told, Untold, SameProcesses
    <3>4. QED
      BY <3>2, <3>3
  <2>3. CASE ReadSignal
    BY <2>3, SignalCases DEF MainOK, ChildOK, Started, Told, Untold, initial_exit_status, Gone,
      SameProcesses
  <2>4. QED
    BY <1>2, <2>1, <2>2, <2>3 DEF monitor_child
<1>3. CASE ProxyRuns
  <2>1. CASE ProxyListens
    BY <2>1
    DEF ProxyListens, ProxySteps, inside, signals, MainOK, ChildOK, Started, Told, Untold,
        initial_exit_status, Gone
  <2>2. CASE sync_closed_cb
    BY <2>2
    DEF sync_closed_cb, Readers, ProxyEnds, ProxySteps, inside, signals, MainOK, ChildOK,
        Started, Told, Untold, initial_exit_status, Gone
  <2>3. QED
    BY <1>3, <2>1, <2>2 DEF ProxyRuns
<1>4. CASE InitRuns
  <2>1. CASE Fork
    BY <2>1
    DEF Fork, InitSteps, signals, counts, MainOK, ChildOK, Started, Told, Untold,
        initial_exit_status, Gone
  <2>2. CASE InitCloses
    BY <2>2
    DEF InitCloses, close_extra_fds, InitSteps, signals, counts, MainOK, ChildOK, Started,
        Told, Untold, initial_exit_status, Gone
  <2>3. CASE lock_all_dirs
    BY <2>3
    DEF lock_all_dirs, InitSteps, signals, counts, MainOK, ChildOK, Started, Told, Untold,
        initial_exit_status, Gone
  <2>4. CASE ReapChild
    <3>1. event = 0 /\ (main.at = "exited" => main.status = 1 /\ "stopped" \in seen)
      BY <2>4 DEF ReapChild, Told, Untold, Started
    <3>2. /\ child'.at = "reaped" /\ initial_exit_status' = initial_exit_status
          /\ initial_exit_status \in 0 .. 255
      BY <2>4 DEF ReapChild, ChildOK, initial_exit_status
    <3>3. event' = initial_exit_status + 1
      BY <2>4, <3>1, <3>2 DEF ReapChild
    <3>4. event' # 0
      BY <3>2, <3>3
    <3>5. /\ main' = main /\ seen' = seen /\ pending' = pending /\ init' = init
          /\ init = "waits" /\ child.at = "ended"
      BY <2>4 DEF ReapChild, InitSteps, counts
    <3>6. main.at = "reads signal" => "stopped" \in seen
      BY <3>5 DEF Told, Untold
    <3>7. QED
      BY <3>1, <3>2, <3>3, <3>4, <3>5, <3>6 DEF Told, Untold
  <2>5. CASE NoneLeft
    BY <2>5
    DEF NoneLeft, InitEnds, InitSteps, counts, MainOK, ChildOK, Started, Told, Untold,
        initial_exit_status, Gone
  <2>6. QED
    BY <1>4, <2>1, <2>2, <2>3, <2>4, <2>5 DEF InitRuns, do_init
<1>5. CASE ChildStarts
  BY <1>5
  DEF ChildStarts, ChildCloses, AppSteps, signals, counts, Exec, MainOK, ChildOK, Started,
      Told, Untold, initial_exit_status, Gone
<1>6. CASE Fails
  <2>1. CASE RunFails
    BY <2>1
    DEF RunFails, MainExits, MainSteps, signals, inside, counts, MainOK, ChildOK, Started,
        Told, Untold, initial_exit_status, Gone
  <2>2. CASE HelperFails
    BY <2>2
    DEF HelperFails, MainExits, MainSteps, signals, inside, counts, MainOK, ChildOK,
        Started, Told, Untold, initial_exit_status, Gone
  <2>3. CASE ProxyFails
    BY <2>3
    DEF ProxyFails, ProxyEnds, ProxySteps, inside, signals, MainOK, ChildOK, Started, Told,
        Untold, initial_exit_status, Gone
  <2>4. CASE SetupFails
    BY <2>4
    DEF SetupFails, InitEnds, InitSteps, counts, MainOK, ChildOK, Started, Told, Untold,
        initial_exit_status, Gone
  <2>5. CASE ExecFails
    BY <2>5
    DEF ExecFails, ChildEnds, AppSteps, signals, counts, MainOK, ChildOK, Started, Told,
        Untold, initial_exit_status, Gone
  <2>6. QED
    BY <1>6, <2>1, <2>2, <2>3, <2>4, <2>5 DEF Fails
<1>7. CASE AppRuns
  <2>1. CASE AppForks
    BY <2>1
    DEF AppForks, AppSteps, signals, counts, MainOK, ChildOK, Started, Told, Untold,
        initial_exit_status, Gone
  <2>2. CASE OtherEnds
    BY <2>2
    DEF OtherEnds, AppSteps, signals, counts, MainOK, ChildOK, Started, Told, Untold,
        initial_exit_status, Gone
  <2>3. CASE AppEnds
    <3>1. PICK s \in Statuses \cup {256} : ChildEnds(s)
      BY <2>3 DEF AppEnds
    <3>2. QED
      BY <2>3, <3>1 DEF AppEnds, ChildEnds, AppSteps, counts, signals, Told, Untold, Started,
        initial_exit_status, ChildOK
  <2>4. QED
    BY <1>7, <2>1, <2>2, <2>3 DEF AppRuns
<1>8. CASE Trouble
  <2>1. CASE KillMain
    BY <2>1
    DEF KillMain, inside, signals, MainOK, ChildOK, Started, Told, Untold,
        initial_exit_status, Gone
  <2>2. CASE KillInit
    BY <2>2
    DEF KillInit, InitEnds, MainOK, ChildOK, Started, Told, Untold, initial_exit_status,
        Gone
  <2>3. CASE KillProxy
    BY <2>3
    DEF KillProxy, ProxyEnds, inside, signals, MainOK, ChildOK, Started, Told, Untold,
        initial_exit_status, Gone
  <2>4. CASE StopInit
    BY <2>4
    DEF StopInit, inside, MainOK, ChildOK, Started, Told, Untold, initial_exit_status, Gone
  <2>5. QED
    BY <1>8, <2>1, <2>2, <2>3, <2>4 DEF Trouble
<1>9. QED
  BY <1>1, <1>2, <1>3, <1>4, <1>5, <1>6, <1>7, <1>8 DEF HelperNext

-----------------------------------------------------------------------------
(* The theorems.                                                           *)

\* TypeOK is its parts; the value of the eventfd follows from the exit status.
LEMMA EventOK ==
  ASSUME ChildOK, Told PROVE event \in 0 .. 256
<1>1. initial_exit_status \in 0 .. 255
  BY DEF ChildOK, initial_exit_status
<1>2. CASE event # 0
  <2>1. event = initial_exit_status + 1
    BY <1>2 DEF Told
  <2>2. QED
    BY <1>1, <2>1
<1>3. QED
  BY <1>2

Parts == MainOK /\ ChildOK /\ FdsOK /\ SignalsOK /\ PlainOK /\ CountsOK
Inv == Parts /\ Started /\ ProxyFirst /\ Inherited /\ Told

\* The invariant gives the types, and holds at the start and in a stutter.
LEMMA InvTypes == Inv => HelperTypeOK
BY EventOK DEF Inv, Parts, MainOK, ChildOK, FdsOK, SignalsOK, PlainOK, CountsOK, HelperTypeOK

LEMMA InitInv ==
  ASSUME HelperInit PROVE Inv
<1>1. MainOK /\ ChildOK
  <2>1. "run" \in MainStates /\ "none" \in ChildStates
    BY DEF MainStates, ChildStates
  <2>2. QED
    BY <2>1 DEF HelperInit, MainOK, ChildOK
<1>2. FdsOK /\ SignalsOK /\ PlainOK /\ CountsOK
  BY Bounds DEF HelperInit, FdsOK, SignalsOK, PlainOK, CountsOK, Processes
<1>3. Started /\ ProxyFirst /\ Told
  BY DEF HelperInit, Started, ProxyFirst, Told
<1>4. Inherited
  BY DEF HelperInit, Inherited, Processes
<1>5. QED
  BY <1>1, <1>2, <1>3, <1>4 DEF Inv, Parts

LEMMA StutterInv ==
  ASSUME Inv, UNCHANGED helper_vars PROVE Inv'
<1>1. /\ UNCHANGED main /\ UNCHANGED proxy /\ UNCHANGED init /\ UNCHANGED child /\ UNCHANGED fds
      /\ UNCHANGED synced /\ UNCHANGED event /\ UNCHANGED pending /\ UNCHANGED others
      /\ UNCHANGED trouble /\ UNCHANGED seen
  BY DEF helper_vars, inside, signals, counts
<1>2. Parts'
  BY <1>1 DEF Inv, Parts, MainOK, ChildOK, FdsOK, SignalsOK, PlainOK, CountsOK
<1>3. Started' /\ ProxyFirst' /\ Inherited'
  BY <1>1 DEF Inv, Started, ProxyFirst, Inherited
<1>4. Told'
  BY <1>1 DEF Inv, Told, Untold, initial_exit_status
<1>5. QED
  BY <1>2, <1>3, <1>4 DEF Inv

\* The invariant holds at the start and is kept by every step.
THEOREM Inductive == HelperSpec => []Inv
<1>1. Inv /\ [HelperNext]_helper_vars => Inv'
  <2>1. ASSUME Inv, HelperNext PROVE Parts'
    BY <2>1, MainStep, ChildStep, FdsStep, SignalsStep, PlainStep, CountsStep DEF Inv, Parts
  <2>2. ASSUME Inv, HelperNext PROVE Started' /\ ProxyFirst' /\ Inherited' /\ Told'
    <3>1. /\ MainOK /\ ChildOK /\ FdsOK /\ SignalsOK /\ CountsOK
          /\ Started /\ ProxyFirst /\ Inherited /\ Told
      BY <2>2 DEF Inv, Parts
    <3>2. Started' /\ ProxyFirst'
      BY <2>2, <3>1, StartedStep, ProxyFirstStep
    <3>3. Inherited' /\ Told'
      BY <2>2, <3>1, InheritedStep, ToldStep
    <3>4. QED
      BY <3>2, <3>3
  <2>3. QED
    BY <2>1, <2>2, StutterInv DEF Inv
<1>2. HelperInit => Inv
  BY InitInv
<1>3. QED
  BY <1>1, <1>2, PTL DEF HelperSpec

\* The helper exits with the status of the app's first process, 1 for a
\* signal, unless pid 1 ended or was stopped before it could tell
\* (monitor_child and do_init of xdg-app-helper.c).
THEOREM StatusIsReported == HelperSpec => []StatusReported
<1>1. Inv => StatusReported
  BY DEF Inv, Told, Untold, StatusReported
<1>2. QED
  BY <1>1, Inductive, PTL

\* While an app runs its directories are locked once pid 1 waits, a proxy
\* that the sandbox needs listens and does not end for want of it, and the
\* app has none of the descriptors that say so (xdg_app_builtin_run,
\* close_extra_fds, lock_all_dirs, sync_closed_cb).
THEOREM SandboxIsCovered == HelperSpec => []SandboxCovered
<1>1. Inv => SandboxCovered
  <2> SUFFICES ASSUME Inv PROVE SandboxCovered
    OBVIOUS
  <2>1. HelperTypeOK
    BY InvTypes
  <2>2. AppLives => init \notin {"none", "exited"}
    <3>1. AppLives => child.at = "runs" \/ others # 0
      BY Bounds DEF Inv, Parts, CountsOK, AppLives
    <3>2. QED
      BY <3>1 DEF Inv, Started
  <2>3. AppLives /\ init = "waits" => "lock" \in fds["init"]
    BY DEF Inv, Inherited
  <2>4. proxy = "hung up" => /\ init \in {"none", "exited"}
                             /\ main.at \notin {"spawned", "syncing", "helper", "cloned"}
    BY DEF Inv, Inherited
  <2>5. AppLives /\ proxy # "none" => "listened" \in seen
    BY <2>2 DEF Inv, ProxyFirst
  <2>6. child.at = "runs" => fds["child"] = {}
    BY DEF Inv, Inherited
  <2>7. QED
    BY <2>1, <2>3, <2>4, <2>5, <2>6 DEF SandboxCovered
<1>2. QED
  BY <1>1, Inductive, PTL
=============================================================================

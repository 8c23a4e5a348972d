--------------------------- MODULE Library_proofs ---------------------------
(***************************************************************************)
(* Proofs about Lifecycle and Engines, which extends it: for any number of *)
(* users of every kind, in any order of their calls, whatever succeeds in  *)
(* a call, and for any number of evaluations, native functions and         *)
(* functions of the engine's library.                                      *)
(*                                                                         *)
(* What the functions do to the globals comes first, one lemma for each    *)
(* (the ...Effect lemmas).  The counts are then bounded by the numbers of  *)
(* users that hold the module, from above whatever happens, which leaves   *)
(* nothing behind when there are none, and from below where failures are   *)
(* seen, which keeps what they hold (the ...Step lemmas, and IInv).        *)
(*                                                                         *)
(* Every step of Engines is one of Lifecycle or leaves it alone, so that   *)
(* its theorems hold there too.  EInv adds that the bounds from below hold *)
(* until an initialization fails (CountedInv), which RunningInv ties to    *)
(* the library, and follows each value from where it is made to where it   *)
(* is released.  Only the functions of JSC meet those of other evaluations *)
(* there, in the table: TableInv and AloneInv say that whatever an         *)
(* evaluation finds in it is its own or that of a disturbed one.           *)
(***************************************************************************)
EXTENDS Engines, FiniteSetTheorems, TLAPS

-----------------------------------------------------------------------------
(* The globals and their types.                                            *)

Counts == {"config", "execute", "resolver"}
Flags == {"configI", "urlOverride", "proxyOverride", "bypassOverride", "autoDiscoverDisable",
          "executeI", "resolverI", "threadpool", "mutex"}
Names == Counts \cup Flags

Globals == {s \in [Names -> Nat \cup BOOLEAN] :
               /\ \A f \in Counts : s[f] \in Nat
               /\ \A f \in Flags : s[f] \in BOOLEAN}

\* The fields of each module.
LEMMA FieldNames ==
    /\ DOMAIN ConfigFields = {"config", "configI", "urlOverride", "proxyOverride",
                              "bypassOverride", "autoDiscoverDisable"}
    /\ DOMAIN ExecuteFields = {"execute", "executeI"}
    /\ DOMAIN ResolverFields = {"resolver", "resolverI", "threadpool"}
    /\ DOMAIN PosixFields = {"mutex"}
BY DEF ConfigFields, ExecuteFields, ResolverFields, PosixFields

\* A module that is not initialized has no count and no flag.
LEMMA FieldValues ==
    /\ ConfigFields["config"] = 0
    /\ \A f \in DOMAIN ConfigFields \cap Flags : ConfigFields[f] = FALSE
    /\ ExecuteFields["execute"] = 0
    /\ \A f \in DOMAIN ExecuteFields \cap Flags : ExecuteFields[f] = FALSE
    /\ ResolverFields["resolver"] = 0
    /\ \A f \in DOMAIN ResolverFields \cap Flags : ResolverFields[f] = FALSE
    /\ \A f \in DOMAIN PosixFields : PosixFields[f] = FALSE
BY FieldNames DEF ConfigFields, ExecuteFields, ResolverFields, PosixFields, Flags

\* The globals of a process that starts are those of all modules, ...
LEMMA FreshDomain == DOMAIN Fresh = Names
BY FieldNames DEF Fresh, Counts, Flags, Names

\* ... none of them is set, ...
LEMMA FreshValues ==
     /\ \A f \in Counts : Fresh[f] = 0
     /\ \A f \in Flags : Fresh[f] = FALSE
<1>1. \A f \in DOMAIN ConfigFields : Fresh[f] = ConfigFields[f]
  BY FieldNames DEF Fresh
<1>2. \A f \in DOMAIN ExecuteFields : Fresh[f] = ExecuteFields[f]
  BY FieldNames DEF Fresh
<1>3. \A f \in DOMAIN ResolverFields : Fresh[f] = ResolverFields[f]
  BY FieldNames DEF Fresh
<1>4. \A f \in DOMAIN PosixFields : Fresh[f] = PosixFields[f]
  BY FieldNames DEF Fresh
<1> QED BY <1>1, <1>2, <1>3, <1>4, FieldNames, FieldValues DEF Counts, Flags

\* ... and they have their types.
LEMMA FreshType == Fresh \in Globals
<1>1. Fresh = [f \in Names |-> Fresh[f]]
  BY FreshDomain DEF Fresh
<1>2. \A f \in Counts : Fresh[f] \in Nat
  BY FreshValues
<1>3. \A f \in Flags : Fresh[f] \in BOOLEAN
  BY FreshValues
<1>4. Fresh \in [Names -> Nat \cup BOOLEAN]
  BY <1>1, <1>2, <1>3 DEF Names
<1> QED BY <1>2, <1>3, <1>4 DEF Globals

\* memset writes the fields of its module and no other.
LEMMA WithFields ==
    ASSUME NEW s \in Globals, NEW r
    PROVE  /\ With(s, r) = [f \in Names |-> With(s, r)[f]]
           /\ \A f \in Names \cap DOMAIN r : With(s, r)[f] = r[f]
           /\ \A f \in Names \ DOMAIN r : With(s, r)[f] = s[f]
<1>1. DOMAIN s = Names
  BY DEF Globals
<1> QED BY <1>1 DEF With

-----------------------------------------------------------------------------
(* What the functions do to the globals.                                   *)

\* The interface of a module is there as long as its count, the overrides no longer than the
\* configuration, and the pool and the mutex no longer than the resolver.
ConfigFlags == Flags \cap DOMAIN ConfigFields
ConfigSound(s) == IF s.config = 0 THEN \A f \in ConfigFlags : s[f] = FALSE ELSE s.configI = TRUE
ExecuteSound(s) == IF s.execute = 0 THEN s.executeI = FALSE ELSE s.executeI = TRUE
ResolverSound(s) ==
   IF s.resolver = 0
   THEN s.resolverI = FALSE /\ s.threadpool = FALSE /\ s.mutex = FALSE
   ELSE s.resolverI = TRUE
\* Only the fields change.
Keeps(s, t, fields) == \A f \in Names \ fields : t[f] = s[f]
\* A count that a cleanup lowers, which it never takes below zero.
Down(n) == IF n > 1 THEN n - 1 ELSE 0

\* After a memset the fields of the module are cleared and the globals keep their types.
LEMMA WithType ==
    ASSUME NEW s \in Globals, NEW r \in {ConfigFields, ExecuteFields, ResolverFields, PosixFields}
    PROVE  /\ With(s, r) \in Globals
           /\ \A f \in Flags \cap DOMAIN r : With(s, r)[f] = FALSE
           /\ \A f \in Counts \cap DOMAIN r : With(s, r)[f] = 0
           /\ Keeps(s, With(s, r), DOMAIN r)
<1> DEFINE t == With(s, r)
<1>1. \A f \in Flags \cap DOMAIN r : r[f] = FALSE
  BY FieldNames, FieldValues DEF Flags
<1>2. \A f \in Counts \cap DOMAIN r : r[f] = 0
  BY FieldNames, FieldValues DEF Counts
<1>3. \A f \in Flags \cap DOMAIN r : t[f] = FALSE
  BY <1>1, WithFields DEF Names
<1>4. \A f \in Counts \cap DOMAIN r : t[f] = 0
  BY <1>2, WithFields DEF Names
<1>5. Keeps(s, t, DOMAIN r)
  BY WithFields DEF Keeps
<1>6. \A f \in Counts : t[f] \in Nat
  BY <1>4, <1>5 DEF Globals, Names, Keeps
<1>7. \A f \in Flags : t[f] \in BOOLEAN
  BY <1>3, <1>5 DEF Globals, Names, Keeps
<1>8. t = [f \in Names |-> t[f]]
  BY WithFields
<1>9. t \in [Names -> Nat \cup BOOLEAN]
  BY <1>6, <1>7, <1>8 DEF Names
<1> QED BY <1>3, <1>4, <1>5, <1>6, <1>7, <1>9 DEF Globals

\* Assignments to a count ...
LEMMA CountType ==
    ASSUME NEW s \in Globals, NEW f \in Counts, NEW n \in Nat
    PROVE  LET t == [s EXCEPT ![f] = n]
           IN  t \in Globals /\ t[f] = n /\ Keeps(s, t, {f})
<1> DEFINE t == [s EXCEPT ![f] = n]
<1>1. DOMAIN s = Names /\ f \in Names /\ t = [x \in Names |-> IF x = f THEN n ELSE s[x]]
  BY DEF Globals, Names
<1>2. t[f] = n /\ Keeps(s, t, {f})
  BY <1>1 DEF Keeps
<1>3. \A x \in Counts : t[x] \in Nat
  BY <1>1 DEF Globals, Names
<1>4. f \notin Flags
  BY DEF Counts, Flags
<1>5. \A x \in Flags : t[x] = s[x]
  BY <1>1, <1>4 DEF Names
<1>6. \A x \in Flags : t[x] \in BOOLEAN
  BY <1>5 DEF Globals
<1>7. t \in [Names -> Nat \cup BOOLEAN]
  BY <1>1, <1>3, <1>6 DEF Names
<1> QED BY <1>2, <1>3, <1>6, <1>7 DEF Globals

\* ... and to a flag keep the types and the other fields.
LEMMA FlagType ==
    ASSUME NEW s \in Globals, NEW f \in Flags, NEW b \in BOOLEAN
    PROVE  LET t == [s EXCEPT ![f] = b]
           IN  t \in Globals /\ t[f] = b /\ Keeps(s, t, {f})
<1> DEFINE t == [s EXCEPT ![f] = b]
<1>1. DOMAIN s = Names /\ f \in Names /\ t = [x \in Names |-> IF x = f THEN b ELSE s[x]]
  BY DEF Globals, Names
<1>2. t[f] = b /\ Keeps(s, t, {f})
  BY <1>1 DEF Keeps
<1>3. f \notin Counts
  BY DEF Counts, Flags
<1>4. \A x \in Counts : t[x] = s[x]
  BY <1>1, <1>3 DEF Names
<1>5. \A x \in Counts : t[x] \in Nat
  BY <1>4 DEF Globals
<1>6. \A x \in Flags : t[x] \in BOOLEAN
  BY <1>1 DEF Globals, Names
<1>7. t \in [Names -> Nat \cup BOOLEAN]
  BY <1>1, <1>5, <1>6 DEF Names
<1> QED BY <1>2, <1>5, <1>6, <1>7 DEF Globals

\* Only the fields change, within their types.
Changes(s, t, fields) == s \in Globals /\ t \in Globals /\ Keeps(s, t, fields)

Environments == [engine : BOOLEAN, pool : BOOLEAN, mutex : BOOLEAN, fetch : BOOLEAN]

ConfigNames == DOMAIN ConfigFields
ExecuteNames == DOMAIN ExecuteFields

\* proxy_config_global_init counts one more and cannot fail.
LEMMA ConfigInitEffect ==
    ASSUME NEW s \in Globals, ConfigSound(s), NEW t, t = ConfigInit(s).globals
    PROVE  /\ Changes(s, t, ConfigNames) /\ ConfigSound(t)
           /\ t.config = s.config + 1
           /\ ConfigInit(s).ok
<1> DEFINE more == [s EXCEPT !.config = @ + 1]
           w == With(s, ConfigFields)
           one == [w EXCEPT !.config = 1]
           first == [one EXCEPT !.configI = TRUE]
<1> USE FieldNames DEF ConfigNames
<1>1. s.config \in Nat /\ "config" \in Counts /\ "configI" \in Flags
  BY DEF Globals, Counts, Flags
<1>2. CASE s.config > 0
  <2>1. t = more /\ ConfigInit(s).ok
    BY <1>2 DEF ConfigInit, Returns
  <2>2. more \in Globals /\ more.config = s.config + 1 /\ Keeps(s, more, {"config"})
    BY <1>1, CountType
  <2>3. more.configI = s.configI
    BY <2>2 DEF Keeps, Names, Flags
  <2>4. Keeps(s, more, ConfigNames)
    BY <2>2 DEF Keeps
  <2>5. ConfigSound(more)
    BY <1>1, <1>2, <2>2, <2>3 DEF ConfigSound
  <2> HIDE DEF more
  <2> QED BY <2>1, <2>2, <2>4, <2>5 DEF Changes
<1>3. CASE ~ s.config > 0
  <2>1. t = [w EXCEPT !.config = 1, !.configI = TRUE] /\ ConfigInit(s).ok
    BY <1>3 DEF ConfigInit, Returns
  <2>2. w \in Globals /\ Keeps(s, w, ConfigNames)
    BY WithType
  <2>3. one \in Globals /\ one.config = 1 /\ Keeps(w, one, {"config"})
    <3> HIDE DEF w
    <3> QED BY <1>1, <2>2, CountType
  <2>4. first \in Globals /\ first.configI = TRUE /\ Keeps(one, first, {"configI"})
    <3> HIDE DEF one
    <3> QED BY <1>1, <2>3, FlagType
  <2>5. first.config = 1
    BY <2>3, <2>4 DEF Keeps, Names, Counts
  <2>6. t = first
    BY <2>1, <2>2 DEF Globals
  <2>7. Keeps(s, first, ConfigNames)
    BY <2>2, <2>3, <2>4 DEF Keeps
  <2>8. ConfigSound(first)
    BY <2>4, <2>5 DEF ConfigSound
  <2>9. s.config = 0
    BY <1>1, <1>3
  <2> HIDE DEF first, one, w
  <2> QED BY <2>1, <2>4, <2>5, <2>6, <2>7, <2>8, <2>9 DEF Changes
<1> QED BY <1>2, <1>3

\* proxy_config_global_cleanup counts one less, if there is one.
LEMMA ConfigCleanupEffect ==
    ASSUME NEW s \in Globals, ConfigSound(s), NEW t, t = ConfigCleanup(s).globals
    PROVE  /\ Changes(s, t, ConfigNames) /\ ConfigSound(t)
           /\ t.config = Down(s.config)
<1> DEFINE less == [s EXCEPT !.config = @ - 1]
           w == With(s, ConfigFields)
<1> USE FieldNames DEF ConfigNames
<1>1. s.config \in Nat /\ "config" \in Counts
  BY DEF Globals, Counts
<1>2. CASE s.config - 1 > 0
  <2>1. t = less
    BY <1>2 DEF ConfigCleanup, Returns
  <2>2. less \in Globals /\ less.config = s.config - 1 /\ Keeps(s, less, {"config"})
    BY <1>1, <1>2, CountType
  <2>3. less.configI = s.configI
    BY <2>2 DEF Keeps, Names, Flags
  <2>4. Keeps(s, less, ConfigNames)
    BY <2>2 DEF Keeps
  <2>5. ConfigSound(less)
    BY <1>1, <1>2, <2>2, <2>3 DEF ConfigSound
  <2> HIDE DEF less
  <2> QED BY <1>1, <1>2, <2>1, <2>2, <2>4, <2>5 DEF Changes, Down
<1>3. CASE ~ s.config - 1 > 0
  <2>1. t = w
    BY <1>3 DEF ConfigCleanup, Returns
  <2>2. w \in Globals /\ Keeps(s, w, ConfigNames) /\ w.config = 0
    BY <1>1, WithType
  <2>3. ConfigSound(w)
    BY <2>2, WithType DEF ConfigSound, ConfigFlags
  <2> HIDE DEF w
  <2> QED BY <1>1, <1>3, <2>1, <2>2, <2>3 DEF Changes, Down
<1> QED BY <1>2, <1>3

\* The outcomes of proxy_execute_global_init: it counts, or there is no engine.
ExecuteOutcome(s, env, t, ok) ==
   \/ /\ ok = TRUE /\ t.execute = s.execute + 1
      /\ s.execute > 0 \/ env.engine = TRUE
   \/ /\ ok = FALSE /\ t.execute = 0
      /\ s.execute = 0 /\ env.engine = FALSE

\* proxy_execute_global_init counts one more where there is an engine, or was one before.
LEMMA ExecuteInitEffect ==
    ASSUME NEW s \in Globals, ExecuteSound(s), NEW env \in Environments,
           NEW t, t = ExecuteInit(s, env).globals,
           NEW ok, ok = ExecuteInit(s, env).ok
    PROVE  /\ Changes(s, t, ExecuteNames) /\ ExecuteSound(t)
           /\ ExecuteOutcome(s, env, t, ok)
<1> DEFINE more == [s EXCEPT !.execute = @ + 1]
           one == [s EXCEPT !.execute = 1]
           first == [one EXCEPT !.executeI = TRUE]
           w == With(s, ExecuteFields)
<1> USE FieldNames DEF ExecuteNames, ExecuteOutcome
<1>1. env.engine \in BOOLEAN
  BY DEF Environments
<1>2. s.execute \in Nat /\ s.execute + 1 \in Nat /\ "execute" \in Counts /\ "executeI" \in Flags
  BY DEF Globals, Counts, Flags
<1>3. CASE s.execute > 0
  <2>1. t = more /\ ok = TRUE
    BY <1>3 DEF ExecuteInit, Returns
  <2>2. more \in Globals /\ more.execute = s.execute + 1 /\ Keeps(s, more, {"execute"})
    BY <1>2, CountType
  <2>3. more.executeI = s.executeI
    BY <2>2 DEF Keeps, Names, Flags
  <2>4. Keeps(s, more, ExecuteNames)
    BY <2>2 DEF Keeps
  <2>5. ExecuteSound(more)
    BY <1>2, <1>3, <2>2, <2>3 DEF ExecuteSound
  <2> HIDE DEF more
  <2> QED BY <1>3, <2>1, <2>2, <2>4, <2>5 DEF Changes
<1>4. CASE ~ s.execute > 0 /\ env.engine
  <2>1. t = [s EXCEPT !.execute = 1, !.executeI = TRUE] /\ ok = TRUE
    BY <1>4 DEF ExecuteInit, Returns
  <2>2. one \in Globals /\ one.execute = 1 /\ Keeps(s, one, {"execute"})
    BY <1>2, CountType
  <2>3. first \in Globals /\ first.executeI = TRUE /\ Keeps(one, first, {"executeI"})
    <3> HIDE DEF one
    <3> QED BY <1>2, <2>2, FlagType
  <2>4. first.execute = 1
    BY <2>2, <2>3 DEF Keeps, Names, Counts
  <2>5. t = first
    BY <2>1 DEF Globals
  <2>6. Keeps(s, first, ExecuteNames)
    BY <2>2, <2>3 DEF Keeps
  <2>7. ExecuteSound(first)
    BY <2>3, <2>4 DEF ExecuteSound
  <2>8. s.execute = 0
    BY <1>2, <1>4
  <2> HIDE DEF first, one
  <2> QED BY <1>4, <2>1, <2>3, <2>4, <2>5, <2>6, <2>7, <2>8 DEF Changes
<1>5. CASE ~ s.execute > 0 /\ ~env.engine
  <2>1. t = w /\ ok = FALSE
    BY <1>5 DEF ExecuteInit, Returns
  <2>2. w \in Globals /\ Keeps(s, w, ExecuteNames) /\ w.execute = 0 /\ w.executeI = FALSE
    BY <1>2, WithType
  <2>3. ExecuteSound(w)
    BY <2>2 DEF ExecuteSound
  <2>4. s.execute = 0
    BY <1>2, <1>5
  <2> HIDE DEF w
  <2> QED BY <1>5, <2>1, <2>2, <2>3, <2>4 DEF Changes
<1> QED BY <1>1, <1>3, <1>4, <1>5

\* proxy_execute_global_cleanup counts one less, if there is one, and succeeds.
LEMMA ExecuteCleanupEffect ==
    ASSUME NEW s \in Globals, ExecuteSound(s), NEW t, t = ExecuteCleanup(s).globals
    PROVE  /\ Changes(s, t, ExecuteNames) /\ ExecuteSound(t)
           /\ t.execute = Down(s.execute)
           /\ ExecuteCleanup(s).ok
<1> DEFINE less == [s EXCEPT !.execute = @ - 1]
           w == With(s, ExecuteFields)
<1> USE FieldNames DEF ExecuteNames
<1>1. ExecuteCleanup(s).ok
  BY DEF ExecuteCleanup, Returns
<1>2. s.execute \in Nat /\ s.execute + 1 \in Nat /\ "execute" \in Counts /\ "executeI" \in Flags
  BY DEF Globals, Counts, Flags
<1>3. CASE s.execute - 1 > 0
  <2>1. t = less
    BY <1>3 DEF ExecuteCleanup, Returns
  <2>2. s.execute - 1 \in Nat
    BY <1>2, <1>3
  <2>3. less \in Globals /\ less.execute = s.execute - 1 /\ Keeps(s, less, {"execute"})
    BY <1>2, <2>2, CountType
  <2>4. less.executeI = s.executeI
    BY <2>3 DEF Keeps, Names, Flags
  <2>5. Keeps(s, less, ExecuteNames)
    BY <2>3 DEF Keeps
  <2>6. ExecuteSound(less)
    BY <1>2, <1>3, <2>3, <2>4 DEF ExecuteSound
  <2> HIDE DEF less
  <2> QED BY <1>1, <1>2, <1>3, <2>1, <2>3, <2>5, <2>6 DEF Changes, Down
<1>4. CASE ~ s.execute - 1 > 0
  <2>1. t = w
    BY <1>4 DEF ExecuteCleanup, Returns
  <2>2. w \in Globals /\ Keeps(s, w, ExecuteNames) /\ w.execute = 0 /\ w.executeI = FALSE
    BY <1>2, WithType
  <2>3. ExecuteSound(w)
    BY <2>2 DEF ExecuteSound
  <2> HIDE DEF w
  <2> QED BY <1>1, <1>2, <1>4, <2>1, <2>2, <2>3 DEF Changes, Down
<1> QED BY <1>3, <1>4

PosixNames == ExecuteNames \cup DOMAIN PosixFields

\* proxy_resolver_posix_global_cleanup gives an engine away and has no mutex afterwards.
LEMMA PosixCleanupEffect ==
    ASSUME NEW s \in Globals, ExecuteSound(s), NEW t, t = PosixCleanup(s).globals
    PROVE  /\ Changes(s, t, PosixNames) /\ ExecuteSound(t)
           /\ t.execute = Down(s.execute) /\ t.mutex = FALSE
           /\ PosixCleanup(s).ok
<1> DEFINE w == With(s, PosixFields)
<1> USE FieldNames DEF PosixNames, ExecuteNames
<1>1. w \in Globals /\ Keeps(s, w, DOMAIN PosixFields) /\ w.mutex = FALSE
  BY WithType DEF Flags
<1>2. w.execute = s.execute /\ w.executeI = s.executeI
  BY <1>1 DEF Keeps, Names, Counts, Flags
<1>3. ExecuteSound(w)
  BY <1>2 DEF ExecuteSound
<1>4. t = ExecuteCleanup(w).globals /\ PosixCleanup(s).ok = ExecuteCleanup(w).ok
  BY DEF PosixCleanup
<1> HIDE DEF w
<1>5. /\ Changes(w, t, ExecuteNames) /\ ExecuteSound(t)
      /\ t.execute = Down(w.execute)
      /\ ExecuteCleanup(w).ok
  BY <1>1, <1>3, <1>4, ExecuteCleanupEffect
<1>6. t.mutex = FALSE
  BY <1>1, <1>5 DEF Changes, Keeps, Names, Flags
<1>7. Keeps(s, t, PosixNames)
  BY <1>1, <1>5 DEF Changes, Keeps
<1>8. Changes(s, t, PosixNames)
  BY <1>5, <1>7 DEF Changes
<1> QED BY <1>2, <1>4, <1>5, <1>6, <1>8

\* The outcomes of proxy_resolver_posix_init_ex: no mutex, an engine, or no engine or fetch,
\* of which it does not tell.
PosixOutcome(s, env, t, ok) ==
   \/ /\ ok = FALSE /\ t.execute = s.execute
      /\ env.mutex = FALSE
   \/ /\ ok = TRUE /\ t.execute = s.execute + 1 /\ t.mutex = TRUE
   \/ /\ ok = TRUE /\ t.execute = Down(s.execute) /\ t.mutex = FALSE
      /\ env.engine = FALSE \/ env.fetch = FALSE

\* proxy_resolver_posix_init_ex has one of the three outcomes.
LEMMA PosixInitEffect ==
    ASSUME NEW s \in Globals, ExecuteSound(s), NEW env \in Environments,
           NEW t, t = PosixInit(s, env).globals,
           NEW ok, ok = PosixInit(s, env).ok
    PROVE  /\ Changes(s, t, PosixNames) /\ ExecuteSound(t)
           /\ PosixOutcome(s, env, t, ok)
<1> DEFINE w == With(s, PosixFields)
           m == [s EXCEPT !.mutex = TRUE]
           e == ExecuteInit(m, env).globals
           k == ExecuteInit(m, env).ok
<1> USE FieldNames DEF PosixNames, ExecuteNames, PosixOutcome
<1>1. env.engine \in BOOLEAN /\ env.mutex \in BOOLEAN /\ env.fetch \in BOOLEAN
  BY DEF Environments
<1>2. CASE ~env.mutex
  <2>1. t = w /\ ok = FALSE
    BY <1>2 DEF PosixInit, Returns
  <2>2. w \in Globals /\ Keeps(s, w, DOMAIN PosixFields)
    BY WithType
  <2>3. w.execute = s.execute /\ w.executeI = s.executeI
    BY <2>2 DEF Keeps, Names, Counts, Flags
  <2>4. ExecuteSound(w)
    BY <2>3 DEF ExecuteSound
  <2>5. Keeps(s, w, PosixNames)
    BY <2>2 DEF Keeps
  <2> HIDE DEF w
  <2> QED BY <1>2, <2>1, <2>2, <2>3, <2>4, <2>5 DEF Changes
<1>3. CASE env.mutex
  <2>1. m \in Globals /\ m.mutex = TRUE /\ Keeps(s, m, {"mutex"})
    BY FlagType DEF Flags
  <2>2. m.execute = s.execute /\ m.executeI = s.executeI
    BY <2>1 DEF Keeps, Names, Counts, Flags
  <2>3. ExecuteSound(m)
    BY <2>2 DEF ExecuteSound
  <2>4. /\ env.fetch /\ k => t = e /\ ok = k
        /\ env.fetch /\ ~k => t = PosixCleanup(e).globals /\ ok = PosixCleanup(e).ok
        /\ ~env.fetch => t = PosixCleanup(m).globals /\ ok = PosixCleanup(m).ok
    BY <1>3 DEF PosixInit
  <2>5. e = ExecuteInit(m, env).globals /\ k = ExecuteInit(m, env).ok
    OBVIOUS
  <2> HIDE DEF m, e, k
  <2>6. /\ Changes(m, e, ExecuteNames) /\ ExecuteSound(e)
        /\ ExecuteOutcome(m, env, e, k)
    BY <2>1, <2>3, <2>5, ExecuteInitEffect
  <2>7. e \in Globals /\ e.mutex = TRUE /\ Keeps(s, e, PosixNames)
    BY <2>1, <2>6 DEF Changes, Keeps, Names, Flags
  <2>8. CASE env.fetch /\ k = TRUE
    BY <2>2, <2>4, <2>6, <2>7, <2>8 DEF Changes, ExecuteOutcome
  <2>9. CASE env.fetch /\ k = FALSE
    <3>1. t = PosixCleanup(e).globals /\ ok = PosixCleanup(e).ok
      BY <2>4, <2>9
    <3>2. /\ Changes(e, t, PosixNames) /\ ExecuteSound(t)
          /\ t.execute = Down(e.execute) /\ t.mutex = FALSE
          /\ PosixCleanup(e).ok
      BY <2>6, <2>7, <3>1, PosixCleanupEffect
    <3>3. ok = TRUE
      BY <3>1, <3>2 DEF PosixCleanup, ExecuteCleanup, Returns
    <3>4. Keeps(s, t, PosixNames)
      BY <2>7, <3>2 DEF Changes, Keeps
    <3> QED BY <2>2, <2>6, <2>9, <3>2, <3>3, <3>4 DEF Changes, Down, ExecuteOutcome
  <2>10. CASE ~env.fetch
    <3>1. t = PosixCleanup(m).globals /\ ok = PosixCleanup(m).ok
      BY <2>4, <2>10
    <3>2. /\ Changes(m, t, PosixNames) /\ ExecuteSound(t)
          /\ t.execute = Down(m.execute) /\ t.mutex = FALSE
      BY <2>1, <2>3, <3>1, PosixCleanupEffect
    <3>3. ok = TRUE
      BY <3>1 DEF PosixCleanup, ExecuteCleanup, Returns
    <3>4. Keeps(s, t, PosixNames)
      BY <2>1, <3>2 DEF Changes, Keeps
    <3> QED BY <1>1, <2>2, <2>10, <3>2, <3>3, <3>4 DEF Changes
  <2> QED BY <1>1, <2>6, <2>8, <2>9, <2>10 DEF ExecuteOutcome
<1> QED BY <1>1, <1>2, <1>3

\* What proxy_resolver_global_cleanup gives back: one of its counts, or what it holds.
ResolverGivesBack(s, t) ==
   \/ /\ s.resolver > 1 /\ t.resolver = s.resolver - 1
      /\ Keeps(s, t, {"resolver"})
   \/ /\ s.resolver <= 1 /\ t.resolver = 0
      /\ t.resolverI = FALSE /\ t.threadpool = FALSE
      /\ t.config = Down(s.config)
      /\ \/ s.resolverI = TRUE /\ t.execute = Down(s.execute) /\ t.mutex = FALSE
         \/ s.resolverI = FALSE /\ t.execute = s.execute /\ t.mutex = s.mutex

\* proxy_resolver_global_cleanup, also when it is called for an initialization that failed.
LEMMA ResolverCleanupEffect ==
    ASSUME NEW s \in Globals, ConfigSound(s), ExecuteSound(s),
           s.resolver > 0 => s.resolverI = TRUE,
           NEW t, t = ResolverCleanup(s).globals
    PROVE  /\ t \in Globals /\ ConfigSound(t) /\ ExecuteSound(t)
           /\ ResolverGivesBack(s, t)
<1> DEFINE less == [s EXCEPT !.resolver = @ - 1]
           posix == IF s.resolverI THEN PosixCleanup(s).globals ELSE s
           w == With(posix, ResolverFields)
<1> USE FieldNames DEF ResolverGivesBack
<1>1. s.resolver \in Nat /\ "resolver" \in Counts /\ s.resolverI \in BOOLEAN
  BY DEF Globals, Counts, Flags
<1>2. CASE s.resolver - 1 > 0
  <2>1. t = less
    BY <1>2 DEF ResolverCleanup, Returns
  <2>2. s.resolver - 1 \in Nat
    BY <1>1, <1>2
  <2>3. less \in Globals /\ less.resolver = s.resolver - 1 /\ Keeps(s, less, {"resolver"})
    BY <1>1, <2>2, CountType
  <2>4. /\ less.config = s.config /\ less.execute = s.execute
        /\ \A f \in Flags : less[f] = s[f]
    BY <2>3 DEF Keeps, Names, Counts, Flags
  <2> HIDE DEF less
  <2>5. ConfigSound(less)
    BY <2>4 DEF ConfigSound, ConfigFlags, Flags
  <2>6. ExecuteSound(less)
    BY <2>4 DEF ExecuteSound, Flags
  <2> QED BY <1>1, <1>2, <2>1, <2>3, <2>5, <2>6
<1>3. CASE ~ s.resolver - 1 > 0
  <2>1. t = ConfigCleanup(w).globals
    BY <1>3 DEF ResolverCleanup
  <2>2. /\ Changes(s, posix, PosixNames) /\ ExecuteSound(posix)
        /\ \/ s.resolverI = TRUE /\ posix.execute = Down(s.execute) /\ posix.mutex = FALSE
           \/ s.resolverI = FALSE /\ posix.execute = s.execute /\ posix.mutex = s.mutex
    <3>1. CASE s.resolverI = TRUE
      <4>1. posix = PosixCleanup(s).globals
        BY <3>1
      <4> QED BY <3>1, <4>1, PosixCleanupEffect
    <3>2. CASE s.resolverI = FALSE
      <4>1. posix = s
        BY <3>2
      <4> QED BY <3>2, <4>1 DEF Changes, Keeps
    <3> QED BY <1>1, <3>1, <3>2
  <2> HIDE DEF posix
  <2>3. posix \in Globals /\ posix.config = s.config /\ \A f \in ConfigFlags : posix[f] = s[f]
    BY <2>2 DEF Changes, Keeps, PosixNames, ExecuteNames, Names, Counts, Flags, ConfigFlags
  <2>4. ConfigSound(posix)
    BY <2>3 DEF ConfigSound, ConfigFlags, Flags
  <2>5. /\ w \in Globals /\ Keeps(posix, w, DOMAIN ResolverFields)
        /\ w.resolver = 0 /\ w.resolverI = FALSE /\ w.threadpool = FALSE
    BY <1>1, <2>3, WithType DEF Flags
  <2> HIDE DEF w
  <2>6. /\ w.config = posix.config /\ \A f \in ConfigFlags : w[f] = posix[f]
        /\ w.execute = posix.execute /\ w.executeI = posix.executeI
        /\ w.mutex = posix.mutex
    BY <2>5 DEF Keeps, Names, Counts, Flags, ConfigFlags
  <2>7. ConfigSound(w)
    BY <2>4, <2>6 DEF ConfigSound, ConfigFlags, Flags
  <2>8. Changes(w, t, ConfigNames) /\ ConfigSound(t) /\ t.config = Down(w.config)
    BY <2>1, <2>5, <2>7, ConfigCleanupEffect
  <2>9. /\ t.execute = posix.execute /\ t.executeI = posix.executeI
        /\ t.mutex = posix.mutex
        /\ t.resolver = 0 /\ t.resolverI = FALSE /\ t.threadpool = FALSE
    BY <2>5, <2>6, <2>8 DEF Changes, Keeps, ConfigNames, Names, Counts, Flags
  <2>10. ExecuteSound(t)
    BY <2>2, <2>9 DEF ExecuteSound
  <2>11. s.resolver <= 1
    BY <1>1, <1>3
  <2> QED BY <2>2, <2>3, <2>6, <2>8, <2>9, <2>10, <2>11 DEF Changes
<1> QED BY <1>2, <1>3

\* The globals between two calls.
Sound(s) == s \in Globals /\ ConfigSound(s) /\ ExecuteSound(s) /\ ResolverSound(s)

\* A call of it by a user leaves sound globals.
LEMMA ResolverCleanupSound ==
    ASSUME NEW s, Sound(s), NEW t, t = ResolverCleanup(s).globals
    PROVE  Sound(t) /\ ResolverGivesBack(s, t)
<1>1. s \in Globals /\ s.resolver \in Nat
  BY DEF Sound, Globals, Counts
<1>2. ConfigSound(s) /\ ExecuteSound(s) /\ (s.resolver > 0 => s.resolverI = TRUE)
  BY <1>1 DEF Sound, ResolverSound
<1>3. /\ t \in Globals /\ ConfigSound(t) /\ ExecuteSound(t)
      /\ ResolverGivesBack(s, t)
  BY <1>2, <1>1, ResolverCleanupEffect
<1>4. CASE s.resolver > 1
  <2>1. t.resolver = s.resolver - 1 /\ t.resolverI = s.resolverI
    BY <1>1, <1>3, <1>4 DEF ResolverGivesBack, Keeps, Names, Flags
  <2> QED BY <1>1, <1>3, <1>4, <2>1 DEF Sound, ResolverSound
<1>5. CASE ~ s.resolver > 1
  <2>1. t.resolver = 0 /\ t.resolverI = FALSE /\ t.threadpool = FALSE /\ t.mutex = FALSE
    BY <1>1, <1>3, <1>5 DEF ResolverGivesBack, Sound, ResolverSound
  <2> QED BY <1>3, <2>1 DEF Sound, ResolverSound
<1> QED BY <1>4, <1>5

\* The outcomes of proxy_resolver_global_init: a count more, a failure that gives an engine
\* away, or the first count, with an engine or, which gives one away too, without.
ResolverOutcome(s, env, t, ok) ==
   \/ /\ s.resolver > 0 /\ ok = TRUE /\ t.resolver = s.resolver + 1
      /\ Keeps(s, t, {"resolver"})
   \/ /\ s.resolver = 0 /\ ok = FALSE /\ t.resolver = 0
      /\ t.config = s.config /\ t.execute = Down(s.execute)
      /\ env.pool = FALSE \/ env.mutex = FALSE
   \/ /\ s.resolver = 0 /\ ok = TRUE /\ t.resolver = 1 /\ t.threadpool = TRUE
      /\ t.config = s.config + 1
      /\ \/ t.execute = s.execute + 1 /\ t.mutex = TRUE
         \/ t.execute = Down(s.execute) /\ (env.engine = FALSE \/ env.fetch = FALSE)

\* proxy_resolver_global_init leaves sound globals and has one of the three outcomes.
LEMMA ResolverInitEffect ==
    ASSUME NEW s, Sound(s), NEW env \in Environments,
           NEW t, t = ResolverInit(s, env).globals,
           NEW ok, ok = ResolverInit(s, env).ok
    PROVE  Sound(t) /\ ResolverOutcome(s, env, t, ok)
<1> DEFINE more == [s EXCEPT !.resolver = @ + 1]
           w == With(s, ResolverFields)
           config == ConfigInit(w).globals
           chosen == [config EXCEPT !.resolverI = TRUE]
           pooled == [chosen EXCEPT !.threadpool = TRUE]
           posix == PosixInit(pooled, env)
           last == [posix.globals EXCEPT !.resolver = @ + 1]
<1> USE FieldNames DEF ResolverOutcome
<1>1. /\ s \in Globals /\ s.resolver \in Nat /\ "resolver" \in Counts
      /\ "resolverI" \in Flags /\ "threadpool" \in Flags
      /\ env.pool \in BOOLEAN /\ env.mutex \in BOOLEAN
  BY DEF Sound, Globals, Counts, Flags, Environments
<1>2. CASE s.resolver > 0
  <2>1. t = more /\ ok = TRUE
    BY <1>2 DEF ResolverInit, Returns
  <2>2. s.resolver + 1 \in Nat
    BY <1>1
  <2>3. more \in Globals /\ more.resolver = s.resolver + 1 /\ Keeps(s, more, {"resolver"})
    BY <1>1, <2>2, CountType
  <2>4. /\ more.config = s.config /\ more.execute = s.execute
        /\ \A f \in Flags : more[f] = s[f]
    BY <2>3 DEF Keeps, Names, Counts, Flags
  <2> HIDE DEF more
  <2>5. ConfigSound(more)
    BY <2>4 DEF Sound, ConfigSound, ConfigFlags, Flags
  <2>6. ExecuteSound(more)
    BY <2>4 DEF Sound, ExecuteSound, Flags
  <2>7. ResolverSound(more)
    BY <1>1, <1>2, <2>3, <2>4 DEF Sound, ResolverSound, Flags
  <2> QED BY <1>2, <2>1, <2>3, <2>5, <2>6, <2>7 DEF Sound
<1>3. CASE ~ s.resolver > 0
  <2>1. s.resolver = 0 /\ s.mutex = FALSE
    BY <1>1, <1>3 DEF Sound, ResolverSound
  <2>2. /\ w \in Globals /\ Keeps(s, w, DOMAIN ResolverFields)
        /\ w.resolver = 0 /\ w.resolverI = FALSE /\ w.threadpool = FALSE
    BY <1>1, WithType
  <2>3. /\ w.config = s.config /\ \A f \in ConfigFlags : w[f] = s[f]
        /\ w.execute = s.execute /\ w.executeI = s.executeI
    BY <2>2 DEF Keeps, Names, Counts, Flags, ConfigFlags
  <2>4. config = ConfigInit(w).globals
    OBVIOUS
  <2>5. env.pool /\ posix.ok =>
          t = last /\ ok = TRUE
    BY <1>3 DEF ResolverInit, Returns
  <2>6. ~env.pool => t = ResolverCleanup(chosen).globals /\ ok = FALSE
    BY <1>3 DEF ResolverInit, Returns
  <2>7. env.pool /\ ~posix.ok => t = ResolverCleanup(posix.globals).globals /\ ok = FALSE
    BY <1>3 DEF ResolverInit, Returns
  <2>8. posix = PosixInit(pooled, env)
    OBVIOUS
  <2> HIDE DEF w, config
  <2>9. ConfigSound(w) /\ ExecuteSound(w)
    BY <2>3 DEF Sound, ConfigSound, ExecuteSound, ConfigFlags, Flags
  <2>10. Changes(w, config, ConfigNames) /\ ConfigSound(config) /\ config.config = w.config + 1
    BY <2>2, <2>4, <2>9, ConfigInitEffect
  <2>11. /\ config.execute = s.execute /\ config.executeI = s.executeI
         /\ config.resolver = 0
    BY <2>2, <2>3, <2>10 DEF Changes, Keeps, ConfigNames, Names, Counts, Flags
  <2>12. chosen \in Globals /\ chosen.resolverI = TRUE /\ Keeps(config, chosen, {"resolverI"})
    BY <1>1, <2>10, FlagType DEF Changes
  <2> HIDE DEF chosen
  <2>13. /\ chosen.config = s.config + 1 /\ chosen.execute = s.execute /\ chosen.resolver = 0
         /\ chosen.executeI = s.executeI /\ \A f \in ConfigFlags : chosen[f] = config[f]
    BY <2>3, <2>10, <2>11, <2>12 DEF Keeps, Names, Counts, Flags, ConfigFlags
  <2>14. ConfigSound(chosen) /\ ExecuteSound(chosen)
    BY <2>3, <2>9, <2>10, <2>13 DEF Sound, ConfigSound, ExecuteSound, ConfigFlags, Flags
  <2>15. /\ pooled \in Globals /\ pooled.threadpool = TRUE
         /\ Keeps(chosen, pooled, {"threadpool"})
    BY <1>1, <2>12, FlagType
  <2> HIDE DEF pooled
  <2>16. /\ pooled.config = s.config + 1 /\ pooled.execute = s.execute /\ pooled.resolver = 0
         /\ pooled.executeI = s.executeI /\ pooled.resolverI = TRUE
         /\ \A f \in ConfigFlags : pooled[f] = chosen[f]
    BY <2>12, <2>13, <2>15 DEF Keeps, Names, Counts, Flags, ConfigFlags
  <2>17. ConfigSound(pooled) /\ ExecuteSound(pooled)
    BY <2>13, <2>14, <2>16 DEF ConfigSound, ExecuteSound, ConfigFlags, Flags
  <2> DEFINE p == posix.globals
             pok == posix.ok
  <2>18. p = PosixInit(pooled, env).globals /\ pok = PosixInit(pooled, env).ok
    BY <2>8
  <2> HIDE DEF p, pok, posix
  <2>19. /\ Changes(pooled, p, PosixNames) /\ ExecuteSound(p)
         /\ PosixOutcome(pooled, env, p, pok)
    BY <2>15, <2>17, <2>18, PosixInitEffect
  <2>20. /\ p.config = s.config + 1 /\ p.resolver = 0 /\ p.resolverI = TRUE
         /\ p.threadpool = TRUE
         /\ \A f \in ConfigFlags : p[f] = pooled[f]
    BY <2>15, <2>16, <2>19
       DEF Changes, Keeps, PosixNames, ExecuteNames, Names, Counts, Flags, ConfigFlags
  <2>21. p \in Globals /\ ConfigSound(p)
    BY <2>16, <2>17, <2>19, <2>20 DEF Changes, ConfigSound, ConfigFlags, Flags
  <2>22. s.config \in Nat /\ s.execute \in Nat /\ Down(s.config + 1) = s.config
    BY <1>1 DEF Globals, Counts, Down
  <2>23. CASE ~env.pool
    <3>1. t = ResolverCleanup(chosen).globals /\ ok = FALSE
      BY <2>6, <2>23
    <3>2. /\ t \in Globals /\ ConfigSound(t) /\ ExecuteSound(t)
          /\ ResolverGivesBack(chosen, t)
      BY <2>12, <2>14, <3>1, ResolverCleanupEffect
    <3>3. /\ t.resolver = 0 /\ t.resolverI = FALSE /\ t.threadpool = FALSE /\ t.mutex = FALSE
          /\ t.config = s.config /\ t.execute = Down(s.execute)
      BY <2>12, <2>13, <2>22, <3>2 DEF ResolverGivesBack
    <3> QED BY <1>1, <2>1, <2>23, <3>1, <3>2, <3>3 DEF Sound, ResolverSound
  <2>24. CASE env.pool /\ pok = FALSE
    <3>1. t = ResolverCleanup(p).globals /\ ok = FALSE
      BY <2>7, <2>24 DEF p, pok
    <3>2. /\ t \in Globals /\ ConfigSound(t) /\ ExecuteSound(t)
          /\ ResolverGivesBack(p, t)
      BY <2>19, <2>20, <2>21, <3>1, ResolverCleanupEffect
    <3>3. p.execute = s.execute /\ env.mutex = FALSE
      BY <2>16, <2>19, <2>24 DEF PosixOutcome
    <3>4. /\ t.resolver = 0 /\ t.resolverI = FALSE /\ t.threadpool = FALSE /\ t.mutex = FALSE
          /\ t.config = s.config /\ t.execute = Down(s.execute)
      BY <2>20, <2>22, <3>2, <3>3 DEF ResolverGivesBack
    <3> QED BY <1>1, <2>1, <2>24, <3>1, <3>2, <3>3, <3>4 DEF Sound, ResolverSound
  <2>25. CASE env.pool /\ pok = TRUE
    <3> DEFINE one == [p EXCEPT !.resolver = @ + 1]
    <3>1. t = one /\ ok = TRUE
      BY <2>5, <2>25 DEF p, pok
    <3>2. one \in Globals /\ one.resolver = p.resolver + 1 /\ Keeps(p, one, {"resolver"})
      <4>1. p.resolver + 1 \in Nat
        BY <2>20
      <4> QED BY <1>1, <2>21, <4>1, CountType
    <3> HIDE DEF one
    <3>3. /\ t.config = s.config + 1 /\ t.execute = p.execute /\ t.resolver = 1
          /\ \A f \in Flags : t[f] = p[f]
      BY <2>20, <3>1, <3>2 DEF Keeps, Names, Counts, Flags
    <3>4. ConfigSound(t) /\ ExecuteSound(t) /\ ResolverSound(t)
      BY <2>19, <2>20, <2>21, <3>2, <3>3
         DEF ConfigSound, ExecuteSound, ResolverSound, ConfigFlags, Flags
    <3>5. t.threadpool = TRUE /\ t.mutex = p.mutex
      BY <2>20, <3>3 DEF Flags
    <3>6. \/ t.execute = s.execute + 1 /\ t.mutex = TRUE
          \/ t.execute = Down(s.execute) /\ (env.engine = FALSE \/ env.fetch = FALSE)
      BY <2>16, <2>19, <2>25, <3>3, <3>5 DEF PosixOutcome
    <3> QED BY <2>1, <3>1, <3>2, <3>3, <3>4, <3>5, <3>6 DEF Sound
  <2>26. pok \in BOOLEAN
    BY <2>19 DEF PosixOutcome
  <2> QED BY <1>1, <2>23, <2>24, <2>25, <2>26
<1> QED BY <1>2, <1>3

-----------------------------------------------------------------------------
(* The bounds on the counts.                                               *)

\* With c users that hold the configuration, e the engine and r the resolver, which itself
\* holds a configuration and an engine:
One(n) == IF n > 0 THEN 1 ELSE 0
Upper(s, c, e, r) ==
   /\ s.resolver <= r
   /\ s.config <= c + One(s.resolver)
   /\ s.execute <= e + One(s.resolver)
Lower(s, c, r) == r <= s.resolver /\ c + One(s.resolver) <= s.config
LowerEngine(s, e) ==
   /\ e + One(s.resolver) <= s.execute
   /\ s.resolver > 0 => s.threadpool = TRUE /\ s.mutex = TRUE

\* The counts of sound globals are numbers.
LEMMA CountsAreNumbers ==
    ASSUME NEW s, Sound(s)
    PROVE  s \in Globals /\ s.config \in Nat /\ s.execute \in Nat /\ s.resolver \in Nat
BY DEF Sound, Globals, Counts

\* A change of the configuration alone ...
LEMMA ConfigSteps ==
    ASSUME NEW s, Sound(s), NEW t, Changes(s, t, ConfigNames), ConfigSound(t)
    PROVE  /\ Sound(t)
           /\ t.execute = s.execute /\ t.resolver = s.resolver
           /\ t.threadpool = s.threadpool /\ t.mutex = s.mutex
<1>1. /\ t.execute = s.execute /\ t.resolver = s.resolver
      /\ t.executeI = s.executeI /\ t.resolverI = s.resolverI
      /\ t.threadpool = s.threadpool /\ t.mutex = s.mutex
  BY FieldNames DEF Changes, Keeps, ConfigNames, Names, Counts, Flags
<1> QED BY <1>1 DEF Sound, ExecuteSound, ResolverSound, Changes

\* ... or of the engine alone leaves sound globals, and the other counts as they are.
LEMMA ExecuteSteps ==
    ASSUME NEW s, Sound(s), NEW t, Changes(s, t, ExecuteNames), ExecuteSound(t)
    PROVE  /\ Sound(t)
           /\ t.config = s.config /\ t.resolver = s.resolver
           /\ t.threadpool = s.threadpool /\ t.mutex = s.mutex
<1>1. /\ t.config = s.config /\ t.resolver = s.resolver
      /\ t.resolverI = s.resolverI
      /\ t.threadpool = s.threadpool /\ t.mutex = s.mutex
      /\ \A f \in ConfigFlags : t[f] = s[f]
  BY FieldNames DEF Changes, Keeps, ExecuteNames, Names, Counts, Flags, ConfigFlags
<1>2. ConfigSound(t)
  BY <1>1, FieldNames DEF Sound, ConfigSound, ConfigFlags, Flags
<1> QED BY <1>1, <1>2 DEF Sound, ResolverSound, Changes

\* Each function carries the bounds over, with one user more or less: the configuration, ...
LEMMA ConfigInitStep ==
    ASSUME NEW s, Sound(s), NEW t, t = ConfigInit(s).globals,
           NEW c \in Nat, NEW e \in Nat, NEW r \in Nat
    PROVE  /\ Sound(t)
           /\ Upper(s, c, e, r) => Upper(t, c + 1, e, r)
           /\ Lower(s, c, r) => Lower(t, c + 1, r)
           /\ LowerEngine(s, e) => LowerEngine(t, e)
<1>1. Changes(s, t, ConfigNames) /\ ConfigSound(t) /\ t.config = s.config + 1
  BY ConfigInitEffect DEF Sound
<1>2. /\ Sound(t)
      /\ t.execute = s.execute /\ t.resolver = s.resolver
      /\ t.threadpool = s.threadpool /\ t.mutex = s.mutex
  BY <1>1, ConfigSteps
<1> QED BY <1>1, <1>2, CountsAreNumbers DEF Upper, Lower, LowerEngine, One

\* ... which any cleanup gives back, ...
LEMMA ConfigCleanupStep ==
    ASSUME NEW s, Sound(s), NEW t, t = ConfigCleanup(s).globals,
           NEW c \in Nat, NEW e \in Nat, NEW r \in Nat
    PROVE  /\ Sound(t)
           /\ Upper(s, c + 1, e, r) => Upper(t, c, e, r)
           /\ Lower(s, c + 1, r) => Lower(t, c, r)
           /\ LowerEngine(s, e) => LowerEngine(t, e)
<1>1. Changes(s, t, ConfigNames) /\ ConfigSound(t) /\ t.config = Down(s.config)
  BY ConfigCleanupEffect DEF Sound
<1>2. /\ Sound(t)
      /\ t.execute = s.execute /\ t.resolver = s.resolver
      /\ t.threadpool = s.threadpool /\ t.mutex = s.mutex
  BY <1>1, ConfigSteps
<1> QED BY <1>1, <1>2, CountsAreNumbers DEF Upper, Lower, LowerEngine, One, Down

\* ... the engine, which may not be there, ...
LEMMA ExecuteInitStep ==
    ASSUME NEW s, Sound(s), NEW env \in Environments,
           NEW t, t = ExecuteInit(s, env).globals, NEW ok, ok = ExecuteInit(s, env).ok,
           NEW c \in Nat, NEW e \in Nat, NEW r \in Nat
    PROVE  /\ Sound(t) /\ ok \in BOOLEAN
           /\ Upper(s, c, e, r) => Upper(t, c, IF ok THEN e + 1 ELSE e, r)
           /\ Upper(s, c, e, r) => Upper(t, c, e + 1, r)
           /\ Lower(s, c, r) => Lower(t, c, r)
           /\ env.engine /\ LowerEngine(s, e) => ok /\ LowerEngine(t, e + 1)
<1>1. Changes(s, t, ExecuteNames) /\ ExecuteSound(t) /\ ExecuteOutcome(s, env, t, ok)
  BY ExecuteInitEffect DEF Sound
<1>2. /\ Sound(t)
      /\ t.config = s.config /\ t.resolver = s.resolver
      /\ t.threadpool = s.threadpool /\ t.mutex = s.mutex
  BY <1>1, ExecuteSteps
<1>3. CASE ok = TRUE
  <2>1. t.execute = s.execute + 1
    BY <1>1, <1>3 DEF ExecuteOutcome
  <2>2. /\ Upper(s, c, e, r) => Upper(t, c, e + 1, r)
        /\ Lower(s, c, r) => Lower(t, c, r)
        /\ LowerEngine(s, e) => LowerEngine(t, e + 1)
    BY <1>2, <2>1, CountsAreNumbers DEF Upper, Lower, LowerEngine, One
  <2> QED BY <1>2, <1>3, <2>2
<1>4. CASE ok = FALSE
  <2>1. t.execute = 0 /\ s.execute = 0 /\ env.engine = FALSE
    BY <1>1, <1>4 DEF ExecuteOutcome
  <2>2. /\ Upper(s, c, e, r) => Upper(t, c, e, r) /\ Upper(t, c, e + 1, r)
        /\ Lower(s, c, r) => Lower(t, c, r)
    BY <1>2, <2>1, CountsAreNumbers DEF Upper, Lower, One
  <2> QED BY <1>2, <1>4, <2>1, <2>2
<1> QED BY <1>1, <1>3, <1>4 DEF ExecuteOutcome

\* ... and is given back, ...
LEMMA ExecuteCleanupStep ==
    ASSUME NEW s, Sound(s), NEW t, t = ExecuteCleanup(s).globals,
           NEW c \in Nat, NEW e \in Nat, NEW r \in Nat
    PROVE  /\ Sound(t)
           /\ Upper(s, c, e + 1, r) => Upper(t, c, e, r)
           /\ Lower(s, c, r) => Lower(t, c, r)
           /\ LowerEngine(s, e + 1) => LowerEngine(t, e)
<1>1. Changes(s, t, ExecuteNames) /\ ExecuteSound(t) /\ t.execute = Down(s.execute)
  BY ExecuteCleanupEffect DEF Sound
<1>2. /\ Sound(t)
      /\ t.config = s.config /\ t.resolver = s.resolver
      /\ t.threadpool = s.threadpool /\ t.mutex = s.mutex
  BY <1>1, ExecuteSteps
<1> QED BY <1>1, <1>2, CountsAreNumbers DEF Upper, Lower, LowerEngine, One, Down

\* ... the resolver, which gives an engine away that it never counted if it fails, ...
LEMMA ResolverInitStep ==
    ASSUME NEW s, Sound(s), NEW env \in Environments,
           NEW t, t = ResolverInit(s, env).globals, NEW ok, ok = ResolverInit(s, env).ok,
           NEW c \in Nat, NEW e \in Nat, NEW r \in Nat
    PROVE  /\ Sound(t) /\ ok \in BOOLEAN
           /\ Upper(s, c, e, r) => Upper(t, c, e, IF ok THEN r + 1 ELSE r)
           /\ Upper(s, c, e, r) => Upper(t, c, e, r + 1)
           /\ Lower(s, c, r) => Lower(t, c, IF ok THEN r + 1 ELSE r)
           /\ env = AllSucceed /\ LowerEngine(s, e) => ok /\ LowerEngine(t, e)
<1>1. Sound(t) /\ ResolverOutcome(s, env, t, ok)
  BY ResolverInitEffect
<1>2. /\ s.config \in Nat /\ s.execute \in Nat /\ s.resolver \in Nat
      /\ t.config \in Nat /\ t.execute \in Nat /\ t.resolver \in Nat
  BY <1>1, CountsAreNumbers
<1>3. CASE /\ s.resolver > 0 /\ ok = TRUE /\ t.resolver = s.resolver + 1
           /\ Keeps(s, t, {"resolver"})
  <2>1. /\ t.config = s.config /\ t.execute = s.execute
        /\ t.threadpool = s.threadpool /\ t.mutex = s.mutex
    BY <1>3 DEF Keeps, Names, Counts, Flags
  <2>2. /\ Upper(s, c, e, r) => Upper(t, c, e, r + 1)
        /\ Lower(s, c, r) => Lower(t, c, r + 1)
        /\ LowerEngine(s, e) => LowerEngine(t, e)
    BY <1>2, <1>3, <2>1 DEF Upper, Lower, LowerEngine, One
  <2> QED BY <1>1, <1>3, <2>2
<1>4. CASE /\ s.resolver = 0 /\ ok = FALSE /\ t.resolver = 0
           /\ t.config = s.config /\ t.execute = Down(s.execute)
           /\ env.pool = FALSE \/ env.mutex = FALSE
  <2>1. env # AllSucceed
    BY <1>4 DEF AllSucceed
  <2>2. /\ Upper(s, c, e, r) => Upper(t, c, e, r) /\ Upper(t, c, e, r + 1)
        /\ Lower(s, c, r) => Lower(t, c, r)
    BY <1>2, <1>4 DEF Upper, Lower, One, Down
  <2> QED BY <1>1, <1>4, <2>1, <2>2
<1>5. CASE /\ s.resolver = 0 /\ ok = TRUE /\ t.resolver = 1 /\ t.threadpool = TRUE
           /\ t.config = s.config + 1
           /\ \/ t.execute = s.execute + 1 /\ t.mutex = TRUE
              \/ t.execute = Down(s.execute) /\ (env.engine = FALSE \/ env.fetch = FALSE)
  <2>1. env = AllSucceed => t.execute = s.execute + 1 /\ t.mutex = TRUE
    BY <1>5 DEF AllSucceed
  <2>2. t.execute <= s.execute + 1
    BY <1>2, <1>5 DEF Down
  <2>3. /\ Upper(s, c, e, r) => Upper(t, c, e, r + 1)
        /\ Lower(s, c, r) => Lower(t, c, r + 1)
    BY <1>2, <1>5, <2>2 DEF Upper, Lower, One
  <2>4. env = AllSucceed /\ LowerEngine(s, e) => LowerEngine(t, e)
    BY <1>2, <1>5, <2>1 DEF LowerEngine, One
  <2> QED BY <1>1, <1>5, <2>3, <2>4
<1> QED BY <1>1, <1>3, <1>4, <1>5 DEF ResolverOutcome

\* ... and gives its configuration and its engine back with its last count.
LEMMA ResolverCleanupStep ==
    ASSUME NEW s, Sound(s), NEW t, t = ResolverCleanup(s).globals,
           NEW c \in Nat, NEW e \in Nat, NEW r \in Nat
    PROVE  /\ Sound(t)
           /\ Upper(s, c, e, r + 1) => Upper(t, c, e, r)
           /\ Lower(s, c, r + 1) => Lower(t, c, r)
           /\ Lower(s, c, r + 1) /\ LowerEngine(s, e) => LowerEngine(t, e)
<1>1. Sound(t) /\ ResolverGivesBack(s, t)
  BY ResolverCleanupSound
<1>2. /\ s.config \in Nat /\ s.execute \in Nat /\ s.resolver \in Nat
      /\ t.config \in Nat /\ t.execute \in Nat /\ t.resolver \in Nat
  BY <1>1, CountsAreNumbers
<1>3. CASE s.resolver > 1
  <2>1. t.resolver = s.resolver - 1 /\ Keeps(s, t, {"resolver"})
    BY <1>1, <1>2, <1>3 DEF ResolverGivesBack
  <2>2. /\ t.config = s.config /\ t.execute = s.execute
        /\ t.threadpool = s.threadpool /\ t.mutex = s.mutex
    BY <2>1 DEF Keeps, Names, Counts, Flags
  <2> QED BY <1>1, <1>2, <1>3, <2>1, <2>2 DEF Upper, Lower, LowerEngine, One
<1>4. CASE s.resolver = 1
  <2>1. t.resolver = 0 /\ t.config = Down(s.config) /\ t.execute = Down(s.execute)
    BY <1>1, <1>4 DEF ResolverGivesBack, Sound, ResolverSound
  <2> QED BY <1>1, <1>2, <1>4, <2>1 DEF Upper, Lower, LowerEngine, One, Down
<1>5. CASE s.resolver = 0
  <2>1. t.resolver = 0 /\ t.config = Down(s.config) /\ t.execute = s.execute
    BY <1>1, <1>5 DEF ResolverGivesBack, Sound, ResolverSound
  <2> QED BY <1>1, <1>2, <1>5, <2>1 DEF Upper, Lower, LowerEngine, One, Down
<1> QED BY <1>2, <1>3, <1>4, <1>5

\* The modules that a user of a kind holds.
ForConfig == {"config", "proxyres"}
ForExecute == {"execute", "proxyres"}
ForResolver == {"resolver", "proxyres"}
Adds(kind, kinds) == IF kind \in kinds THEN 1 ELSE 0

\* The initialization of a user of any kind, that of proxyres from the three others.
LEMMA CallInitStep ==
    ASSUME NEW s, Sound(s), NEW env \in Environments, NEW kind \in Kinds,
           NEW t, t = CallInit(kind, s, env).globals, NEW ok, ok = CallInit(kind, s, env).ok,
           NEW c \in Nat, NEW e \in Nat, NEW r \in Nat,
           NEW c1, c1 = c + Adds(kind, ForConfig),
           NEW e1, e1 = e + Adds(kind, ForExecute),
           NEW r1, r1 = r + Adds(kind, ForResolver)
    PROVE  /\ Sound(t) /\ ok \in BOOLEAN
           /\ Upper(s, c, e, r) => IF ok THEN Upper(t, c1, e1, r1) ELSE Upper(t, c, e, r)
           /\ Lower(s, c, r) /\ (kind # "proxyres" \/ (env = AllSucceed /\ LowerEngine(s, e)))
                => IF ok THEN Lower(t, c1, r1) ELSE Lower(t, c, r)
           /\ env = AllSucceed /\ LowerEngine(s, e) => ok /\ LowerEngine(t, e1)
<1> USE DEF ForConfig, ForExecute, ForResolver, Adds
<1>1. CASE kind = "config"
  <2>1. t = ConfigInit(s).globals /\ ok = ConfigInit(s).ok
    BY <1>1 DEF CallInit
  <2>2. ok = TRUE
    BY <2>1 DEF ConfigInit, Returns
  <2>3. c1 = c + 1 /\ e1 = e /\ r1 = r
    BY <1>1
  <2>4. /\ Sound(t)
        /\ Upper(s, c, e, r) => Upper(t, c1, e1, r1)
        /\ Lower(s, c, r) => Lower(t, c1, r1)
        /\ LowerEngine(s, e) => LowerEngine(t, e1)
    BY <2>1, <2>3, ConfigInitStep
  <2> QED BY <2>2, <2>4
<1>2. CASE kind = "execute"
  <2>1. t = ExecuteInit(s, env).globals /\ ok = ExecuteInit(s, env).ok
    BY <1>2 DEF CallInit
  <2>2. c1 = c /\ e1 = e + 1 /\ r1 = r
    BY <1>2
  <2>3. env = AllSucceed => env.engine
    BY DEF AllSucceed
  <2> QED BY <2>1, <2>2, <2>3, ExecuteInitStep
<1>3. CASE kind = "resolver"
  <2>1. t = ResolverInit(s, env).globals /\ ok = ResolverInit(s, env).ok
    BY <1>3 DEF CallInit
  <2>2. c1 = c /\ e1 = e /\ r1 = r + 1
    BY <1>3
  <2> QED BY <2>1, <2>2, ResolverInitStep
<1>4. CASE kind = "proxyres"
  <2> DEFINE a == ConfigInit(s).globals
             b == ExecuteInit(a, env).globals
             bok == ExecuteInit(a, env).ok
             rok == ResolverInit(b, env).ok
  <2>1. t = ResolverInit(b, env).globals /\ ok = TRUE
    BY <1>4 DEF CallInit, ProxyresInit, Returns
  <2>2. c1 = c + 1 /\ e1 = e + 1 /\ r1 = r + 1
    BY <1>4
  <2>3. c + 1 \in Nat /\ e + 1 \in Nat
    OBVIOUS
  <2>4. env = AllSucceed => env.engine
    BY DEF AllSucceed
  <2>5. /\ Sound(a)
        /\ Upper(s, c, e, r) => Upper(a, c + 1, e, r)
        /\ Lower(s, c, r) => Lower(a, c + 1, r)
        /\ LowerEngine(s, e) => LowerEngine(a, e)
    BY ConfigInitStep
  <2> HIDE DEF a
  <2>6. /\ Sound(b)
        /\ Upper(a, c + 1, e, r) => Upper(b, c + 1, e + 1, r)
        /\ Lower(a, c + 1, r) => Lower(b, c + 1, r)
        /\ env.engine /\ LowerEngine(a, e) => bok /\ LowerEngine(b, e + 1)
    BY <2>3, <2>5, ExecuteInitStep
  <2> HIDE DEF b
  <2>7. /\ Sound(t)
        /\ Upper(b, c + 1, e + 1, r) => Upper(t, c + 1, e + 1, r + 1)
        /\ Lower(b, c + 1, r) => Lower(t, c + 1, IF rok THEN r + 1 ELSE r)
        /\ env = AllSucceed /\ LowerEngine(b, e + 1) => rok /\ LowerEngine(t, e + 1)
    BY <2>1, <2>3, <2>6, ResolverInitStep
  <2> HIDE DEF bok, rok
  <2> QED BY <1>4, <2>1, <2>2, <2>4, <2>5, <2>6, <2>7
<1> QED BY <1>1, <1>2, <1>3, <1>4 DEF Kinds

\* The cleanup of a user of any kind, in the opposite order.
LEMMA CallCleanupStep ==
    ASSUME NEW s, Sound(s), NEW kind \in Kinds,
           NEW t, t = CallCleanup(kind, s).globals,
           NEW c \in Nat, NEW e \in Nat, NEW r \in Nat,
           NEW c1, c1 = c + Adds(kind, ForConfig),
           NEW e1, e1 = e + Adds(kind, ForExecute),
           NEW r1, r1 = r + Adds(kind, ForResolver)
    PROVE  /\ Sound(t)
           /\ Upper(s, c1, e1, r1) => Upper(t, c, e, r)
           /\ Lower(s, c1, r1) => Lower(t, c, r)
           /\ Lower(s, c1, r1) /\ LowerEngine(s, e1) => LowerEngine(t, e)
<1> USE DEF ForConfig, ForExecute, ForResolver, Adds
<1>1. CASE kind = "config"
  <2>1. t = ConfigCleanup(s).globals
    BY <1>1 DEF CallCleanup
  <2>2. c1 = c + 1 /\ e1 = e /\ r1 = r
    BY <1>1
  <2> QED BY <2>1, <2>2, ConfigCleanupStep
<1>2. CASE kind = "execute"
  <2>1. t = ExecuteCleanup(s).globals
    BY <1>2 DEF CallCleanup
  <2>2. c1 = c /\ e1 = e + 1 /\ r1 = r
    BY <1>2
  <2> QED BY <2>1, <2>2, ExecuteCleanupStep
<1>3. CASE kind = "resolver"
  <2>1. t = ResolverCleanup(s).globals
    BY <1>3 DEF CallCleanup
  <2>2. c1 = c /\ e1 = e /\ r1 = r + 1
    BY <1>3
  <2> QED BY <2>1, <2>2, ResolverCleanupStep
<1>4. CASE kind = "proxyres"
  <2> DEFINE a == ResolverCleanup(s).globals
             b == ExecuteCleanup(a).globals
  <2>1. t = ConfigCleanup(b).globals
    BY <1>4 DEF CallCleanup, ProxyresCleanup, Returns
  <2>2. c1 = c + 1 /\ e1 = e + 1 /\ r1 = r + 1
    BY <1>4
  <2>3. c + 1 \in Nat /\ e + 1 \in Nat
    OBVIOUS
  <2>4. /\ Sound(a)
        /\ Upper(s, c + 1, e + 1, r + 1) => Upper(a, c + 1, e + 1, r)
        /\ Lower(s, c + 1, r + 1) => Lower(a, c + 1, r)
        /\ Lower(s, c + 1, r + 1) /\ LowerEngine(s, e + 1) => LowerEngine(a, e + 1)
    BY <2>3, ResolverCleanupStep
  <2> HIDE DEF a
  <2>5. /\ Sound(b)
        /\ Upper(a, c + 1, e + 1, r) => Upper(b, c + 1, e, r)
        /\ Lower(a, c + 1, r) => Lower(b, c + 1, r)
        /\ LowerEngine(a, e + 1) => LowerEngine(b, e)
    BY <2>3, <2>4, ExecuteCleanupStep
  <2> HIDE DEF b
  <2>6. /\ Sound(t)
        /\ Upper(b, c + 1, e, r) => Upper(t, c, e, r)
        /\ Lower(b, c + 1, r) => Lower(t, c, r)
        /\ LowerEngine(b, e) => LowerEngine(t, e)
    BY <2>1, <2>5, ConfigCleanupStep
  <2> QED BY <2>2, <2>4, <2>5, <2>6
<1> QED BY <1>1, <1>2, <1>3, <1>4 DEF Kinds

-----------------------------------------------------------------------------
(* The users that hold a module, and the inductive invariant.              *)

HeldBy(h, kinds) == {u \in h : Kind[u] \in kinds}
Number(h, kinds) == Cardinality(HeldBy(h, kinds))

\* A user more is one more of those whose kind counts.
LEMMA NumberOfOneMore ==
    ASSUME NEW h, IsFiniteSet(h), NEW u, u \notin h, NEW kinds
    PROVE  /\ Number(h, kinds) \in Nat
           /\ Number(h \cup {u}, kinds) = Number(h, kinds) + Adds(Kind[u], kinds)
<1> DEFINE H == HeldBy(h, kinds)
<1>1. IsFiniteSet(H) /\ Cardinality(H) \in Nat
  BY FS_Subset, FS_CardinalityType DEF HeldBy
<1>2. CASE Kind[u] \in kinds
  <2>1. HeldBy(h \cup {u}, kinds) = H \cup {u} /\ u \notin H
    BY <1>2 DEF HeldBy
  <2>2. Cardinality(H \cup {u}) = Cardinality(H) + 1
    BY <1>1, <2>1, FS_AddElement
  <2> QED BY <1>1, <1>2, <2>1, <2>2 DEF Number, Adds
<1>3. CASE Kind[u] \notin kinds
  <2>1. HeldBy(h \cup {u}, kinds) = H
    BY <1>3 DEF HeldBy
  <2> QED BY <1>1, <1>3, <2>1 DEF Number, Adds
<1> QED BY <1>2, <1>3

Seen == NothingFails \/ ResultsAreSeen
ConfigHolders == Number(holding, ForConfig)
ExecuteHolders == Number(holding, ForExecute)
ResolverHolders == Number(holding, ForResolver)

IInv ==
   /\ process \in Processes
   /\ holding \subseteq process.users /\ IsFiniteSet(holding)
   /\ Sound(g)
   /\ Upper(g, ConfigHolders, ExecuteHolders, ResolverHolders)
   /\ Seen => Lower(g, ConfigHolders, ResolverHolders)
   /\ NothingFails => LowerEngine(g, ExecuteHolders)

\* Nobody is no number of users.
LEMMA NobodyYet == \A kinds : Number({}, kinds) = 0
<1>1. \A kinds : HeldBy({}, kinds) = {}
  BY DEF HeldBy
<1> QED BY <1>1, FS_EmptySet DEF Number

\* A process starts with nothing.
LEMMA InitInv == Init => IInv
<1> SUFFICES ASSUME Init
             PROVE  IInv
  OBVIOUS
<1>1. process \in Processes /\ g = Fresh /\ holding = {}
  BY DEF Init
<1>2. Sound(g)
  <2>1. g \in Globals /\ g.config = 0 /\ g.execute = 0 /\ g.resolver = 0
    BY <1>1, FreshType, FreshValues DEF Counts
  <2>2. \A f \in Flags : g[f] = FALSE
    BY <1>1, FreshValues
  <2> QED BY <2>1, <2>2 DEF Sound, ConfigSound, ExecuteSound, ResolverSound, ConfigFlags, Flags
<1>3. g.config = 0 /\ g.execute = 0 /\ g.resolver = 0
  BY <1>1, FreshValues DEF Counts
<1>4. ConfigHolders = 0 /\ ExecuteHolders = 0 /\ ResolverHolders = 0
  BY <1>1, NobodyYet DEF ConfigHolders, ExecuteHolders, ResolverHolders
<1>5. IsFiniteSet(holding) /\ holding \subseteq process.users
  BY <1>1, FS_EmptySet
<1> QED BY <1>1, <1>2, <1>3, <1>4, <1>5 DEF IInv, Upper, Lower, LowerEngine, One

\* A process does not change its environment.
LEMMA SameProcess ==
    ASSUME UNCHANGED process
    PROVE  /\ NothingFails' <=> NothingFails
           /\ Seen' <=> Seen
BY DEF NothingFails, Seen, ResultsAreSeen

\* Finitely many users hold a module.
LEMMA HoldersAreNumbers ==
    ASSUME IsFiniteSet(holding)
    PROVE  ConfigHolders \in Nat /\ ExecuteHolders \in Nat /\ ResolverHolders \in Nat
<1>1. \A kinds : IsFiniteSet(HeldBy(holding, kinds))
  BY FS_Subset DEF HeldBy
<1> QED BY <1>1, FS_CardinalityType
        DEF Number, ConfigHolders, ExecuteHolders, ResolverHolders

\* The steps: an initialization, ...
LEMMA InitializeStep ==
    ASSUME IInv, NEW u, Initialize(u)
    PROVE  IInv'
<1>1. PICK env \in process.environments :
         LET r == CallInit(Kind[u], g, env)
         IN  /\ g' = r.globals
             /\ holding' = IF r.ok THEN holding \cup {u} ELSE holding
  BY DEF Initialize
<1>2. /\ process \in Processes /\ u \in process.users /\ u \notin holding
      /\ process' = process
      /\ process.users \subseteq Users /\ env \in Environments /\ Kind[u] \in Kinds
  BY LifecycleAssumption DEF IInv, Initialize, Environments
<1> DEFINE ok == CallInit(Kind[u], g, env).ok
           c1 == ConfigHolders + Adds(Kind[u], ForConfig)
           e1 == ExecuteHolders + Adds(Kind[u], ForExecute)
           r1 == ResolverHolders + Adds(Kind[u], ForResolver)
<1>3. ConfigHolders \in Nat /\ ExecuteHolders \in Nat /\ ResolverHolders \in Nat
  BY HoldersAreNumbers DEF IInv
<1>4. g' = CallInit(Kind[u], g, env).globals /\ holding' = IF ok THEN holding \cup {u} ELSE holding
  BY <1>1
<1>5. /\ Sound(g') /\ ok \in BOOLEAN
      /\ Upper(g, ConfigHolders, ExecuteHolders, ResolverHolders)
           => IF ok THEN Upper(g', c1, e1, r1)
                    ELSE Upper(g', ConfigHolders, ExecuteHolders, ResolverHolders)
      /\ Lower(g, ConfigHolders, ResolverHolders)
           /\ (Kind[u] # "proxyres" \/ (env = AllSucceed /\ LowerEngine(g, ExecuteHolders)))
             => IF ok THEN Lower(g', c1, r1) ELSE Lower(g', ConfigHolders, ResolverHolders)
      /\ env = AllSucceed /\ LowerEngine(g, ExecuteHolders) => ok /\ LowerEngine(g', e1)
  BY <1>2, <1>3, <1>4, CallInitStep DEF IInv
<1> HIDE DEF ok, c1, e1, r1
<1>6. NothingFails => env = AllSucceed
  BY DEF NothingFails
<1>7. Seen => NothingFails \/ Kind[u] # "proxyres"
  BY <1>2 DEF Seen, ResultsAreSeen
<1>8. Seen => IF ok THEN Lower(g', c1, r1) ELSE Lower(g', ConfigHolders, ResolverHolders)
  <2>1. Seen => Lower(g, ConfigHolders, ResolverHolders)
    BY DEF IInv
  <2>2. NothingFails => env = AllSucceed /\ LowerEngine(g, ExecuteHolders)
    BY <1>6 DEF IInv
  <2> QED BY <1>5, <1>7, <2>1, <2>2
<1>9. CASE ok = TRUE
  <2>1. holding' = holding \cup {u}
    BY <1>4, <1>9
  <2>2. ConfigHolders' = c1 /\ ExecuteHolders' = e1 /\ ResolverHolders' = r1
    BY <1>2, <2>1, NumberOfOneMore
       DEF IInv, ConfigHolders, ExecuteHolders, ResolverHolders, c1, e1, r1
  <2>3. IsFiniteSet(holding') /\ holding' \subseteq process'.users
    BY <1>2, <2>1, FS_AddElement DEF IInv
  <2>4. Upper(g', ConfigHolders', ExecuteHolders', ResolverHolders')
    BY <1>5, <1>9, <2>2 DEF IInv
  <2>5. Seen' => Lower(g', ConfigHolders', ResolverHolders')
    BY <1>2, <1>9, <1>8, <2>2, SameProcess
  <2>6. NothingFails' => LowerEngine(g', ExecuteHolders')
    BY <1>2, <1>5, <1>6, <2>2, SameProcess DEF IInv
  <2> QED BY <1>2, <1>5, <2>3, <2>4, <2>5, <2>6 DEF IInv
<1>10. CASE ok = FALSE
  <2>1. holding' = holding
    BY <1>4, <1>10
  <2>2. /\ ConfigHolders' = ConfigHolders /\ ExecuteHolders' = ExecuteHolders
        /\ ResolverHolders' = ResolverHolders
    BY <2>1 DEF ConfigHolders, ExecuteHolders, ResolverHolders
  <2>3. IsFiniteSet(holding') /\ holding' \subseteq process'.users
    BY <1>2, <2>1 DEF IInv
  <2>4. Upper(g', ConfigHolders', ExecuteHolders', ResolverHolders')
    BY <1>5, <1>10, <2>2 DEF IInv
  <2>5. Seen' => Lower(g', ConfigHolders', ResolverHolders')
    BY <1>2, <1>10, <1>8, <2>2, SameProcess
  <2>6. ~NothingFails'
    BY <1>2, <1>5, <1>6, <1>10, SameProcess DEF IInv
  <2> QED BY <1>2, <1>5, <2>3, <2>4, <2>5, <2>6 DEF IInv
<1> QED BY <1>5, <1>9, <1>10

\* ... a cleanup ...
LEMMA CleanupStep ==
    ASSUME IInv, NEW u, Cleanup(u)
    PROVE  IInv'
<1>1. /\ u \in holding /\ holding' = holding \ {u} /\ process' = process
      /\ g' = CallCleanup(Kind[u], g).globals
  BY DEF Cleanup
<1>2. process \in Processes /\ Kind[u] \in Kinds
  BY <1>1, LifecycleAssumption DEF IInv
<1>3. IsFiniteSet(holding') /\ holding' \subseteq process'.users /\ u \notin holding'
  BY <1>1, FS_Subset DEF IInv
<1>4. holding = holding' \cup {u}
  BY <1>1
<1>5. /\ ConfigHolders = ConfigHolders' + Adds(Kind[u], ForConfig)
      /\ ExecuteHolders = ExecuteHolders' + Adds(Kind[u], ForExecute)
      /\ ResolverHolders = ResolverHolders' + Adds(Kind[u], ForResolver)
      /\ ConfigHolders' \in Nat /\ ExecuteHolders' \in Nat /\ ResolverHolders' \in Nat
  BY <1>3, <1>4, NumberOfOneMore DEF ConfigHolders, ExecuteHolders, ResolverHolders
<1>6. /\ Sound(g')
      /\ Upper(g, ConfigHolders, ExecuteHolders, ResolverHolders)
           => Upper(g', ConfigHolders', ExecuteHolders', ResolverHolders')
      /\ Lower(g, ConfigHolders, ResolverHolders) => Lower(g', ConfigHolders', ResolverHolders')
      /\ Lower(g, ConfigHolders, ResolverHolders) /\ LowerEngine(g, ExecuteHolders)
           => LowerEngine(g', ExecuteHolders')
  BY <1>1, <1>2, <1>5, CallCleanupStep DEF IInv
<1>7. NothingFails => Seen
  BY DEF Seen
<1> QED BY <1>1, <1>2, <1>3, <1>6, <1>7, SameProcess DEF IInv

\* ... and an override, which leaves the counts alone.
LEMMA OverrideStep ==
    ASSUME IInv, NEW o \in Overrides, Override(o)
    PROVE  IInv'
<1>1. process' = process /\ holding' = holding /\ g.config > 0 /\ o.set \in BOOLEAN
  BY LifecycleAssumption DEF Override
<1>2. g \in Globals
  BY DEF IInv, Sound
<1>3. g' \in Globals /\ Keeps(g, g', {"urlOverride", "proxyOverride", "bypassOverride",
                                      "autoDiscoverDisable"})
  <2> DEFINE F == {"urlOverride", "proxyOverride", "bypassOverride", "autoDiscoverDisable"}
  <2>1. ASSUME NEW f1 \in F, NEW f2 \in F, g' = [[g EXCEPT ![f1] = o.set] EXCEPT ![f2] = o.set]
        PROVE  g' \in Globals /\ Keeps(g, g', F)
    <3> DEFINE h == [g EXCEPT ![f1] = o.set]
    <3>1. f1 \in Flags /\ f2 \in Flags
      BY DEF Flags
    <3>2. h \in Globals /\ Keeps(g, h, {f1})
      BY <1>1, <1>2, <3>1, FlagType
    <3>3. g' = [h EXCEPT ![f2] = o.set]
      BY <2>1
    <3> HIDE DEF h
    <3>4. g' \in Globals /\ Keeps(h, g', {f2})
      BY <1>1, <3>1, <3>2, <3>3, FlagType
    <3> QED BY <3>2, <3>4 DEF Keeps
  <2>2. CASE g' = [g EXCEPT !.urlOverride = o.set, !.autoDiscoverDisable = o.set]
    <3>1. g' = [[g EXCEPT !["urlOverride"] = o.set] EXCEPT !["autoDiscoverDisable"] = o.set]
      BY <1>2, <2>2 DEF Globals
    <3> QED BY <2>1, <3>1
  <2>3. CASE g' = [g EXCEPT !.proxyOverride = o.set, !.autoDiscoverDisable = o.set]
    <3>1. g' = [[g EXCEPT !["proxyOverride"] = o.set] EXCEPT !["autoDiscoverDisable"] = o.set]
      BY <1>2, <2>3 DEF Globals
    <3> QED BY <2>1, <3>1
  <2>4. CASE g' = [g EXCEPT !.bypassOverride = o.set]
    <3>1. g' = [[g EXCEPT !["bypassOverride"] = o.set] EXCEPT !["bypassOverride"] = o.set]
      BY <1>2, <2>4 DEF Globals
    <3> QED BY <2>1, <3>1
  <2> QED BY <2>2, <2>3, <2>4 DEF Override
<1>4. /\ g'.config = g.config /\ g'.execute = g.execute /\ g'.resolver = g.resolver
      /\ g'.configI = g.configI /\ g'.executeI = g.executeI /\ g'.resolverI = g.resolverI
      /\ g'.threadpool = g.threadpool /\ g'.mutex = g.mutex
  BY <1>3 DEF Keeps, Names, Counts, Flags
<1>5. Sound(g')
  BY <1>1, <1>3, <1>4 DEF IInv, Sound, ConfigSound, ExecuteSound, ResolverSound
<1>6. /\ ConfigHolders' = ConfigHolders /\ ExecuteHolders' = ExecuteHolders
      /\ ResolverHolders' = ResolverHolders
  BY <1>1 DEF ConfigHolders, ExecuteHolders, ResolverHolders
<1>7. /\ Upper(g', ConfigHolders', ExecuteHolders', ResolverHolders')
      /\ Seen => Lower(g', ConfigHolders', ResolverHolders')
      /\ NothingFails => LowerEngine(g', ExecuteHolders')
  BY <1>4, <1>6 DEF IInv, Upper, Lower, LowerEngine
<1> QED BY <1>1, <1>5, <1>7, SameProcess DEF IInv

\* Every step carries the invariant over.
LEMMA NextInv == IInv /\ [Next]_vars => IInv'
<1>1. IInv /\ UNCHANGED vars => IInv'
  <2> SUFFICES ASSUME IInv, UNCHANGED vars
               PROVE  IInv'
    OBVIOUS
  <2>1. /\ ConfigHolders' = ConfigHolders /\ ExecuteHolders' = ExecuteHolders
        /\ ResolverHolders' = ResolverHolders
    BY DEF vars, ConfigHolders, ExecuteHolders, ResolverHolders
  <2> QED BY <2>1, SameProcess DEF vars, IInv
<1>2. IInv /\ Next => IInv'
  BY InitializeStep, CleanupStep, OverrideStep DEF Next
<1> QED BY <1>1, <1>2

\* The counts agree with the users that hold the modules: they are never above the number of
\* those, whatever fails, and never below it where failures are seen.
THEOREM Invariance == Spec => []IInv
BY InitInv, NextInv, PTL DEF Spec

\* A holder of a kind makes the number of its kinds positive.
LEMMA SomebodyHolds ==
    ASSUME NEW kinds, NEW u \in holding, Kind[u] \in kinds, IsFiniteSet(holding)
    PROVE  Number(holding, kinds) > 0
<1>1. IsFiniteSet(HeldBy(holding, kinds)) /\ HeldBy(holding, kinds) # {}
  BY FS_Subset DEF HeldBy
<1> QED BY <1>1, FS_CardinalityType, FS_EmptySet DEF Number

\* The invariant is strong enough for what the users hold.
LEMMA HeldInv == IInv => HeldIsReady
<1> SUFFICES ASSUME IInv
             PROVE  HeldIsReady
  OBVIOUS
<1>1. /\ g \in Globals /\ g.config \in Nat /\ g.execute \in Nat /\ g.resolver \in Nat
  BY CountsAreNumbers DEF IInv
<1>2. ConfigHolders \in Nat /\ ExecuteHolders \in Nat /\ ResolverHolders \in Nat
  BY HoldersAreNumbers DEF IInv
<1>3. TypeOK
  <2>1. DOMAIN g = DOMAIN Fresh
    BY <1>1, FreshDomain DEF Globals
  <2>2. \A f \in {"config", "execute", "resolver"} : g[f] \in Nat
    BY <1>1 DEF Globals, Counts
  <2>3. \A f \in DOMAIN g \ {"config", "execute", "resolver"} : g[f] \in BOOLEAN
    BY <1>1 DEF Globals, Names, Counts
  <2>4. holding \subseteq Users
    BY LifecycleAssumption DEF IInv
  <2> QED BY <2>1, <2>2, <2>3, <2>4 DEF TypeOK, IInv
<1>4. ConfigReady
  <2> SUFFICES ASSUME Seen, NEW u \in holding, Kind[u] \in {"config", "resolver", "proxyres"}
               PROVE  g.configI = TRUE
    BY DEF ConfigReady, Holders, Seen
  <2>1. Lower(g, ConfigHolders, ResolverHolders) /\ IsFiniteSet(holding)
    BY DEF IInv
  <2>2. CASE Kind[u] \in ForConfig
    <3>1. ConfigHolders > 0
      BY <2>1, <2>2, SomebodyHolds DEF ConfigHolders
    <3>2. g.config > 0
      BY <1>1, <1>2, <2>1, <3>1 DEF Lower, One
    <3> QED BY <1>1, <3>2 DEF IInv, Sound, ConfigSound
  <2>3. CASE Kind[u] \in ForResolver
    <3>1. ResolverHolders > 0
      BY <2>1, <2>3, SomebodyHolds DEF ResolverHolders
    <3>2. g.config > 0
      BY <1>1, <1>2, <2>1, <3>1 DEF Lower, One
    <3> QED BY <1>1, <3>2 DEF IInv, Sound, ConfigSound
  <2> QED BY <2>2, <2>3 DEF ForConfig, ForResolver
<1>5. EngineReady
  <2> SUFFICES ASSUME NothingFails, NEW u \in holding, Kind[u] \in ForExecute
               PROVE  g.executeI = TRUE
    BY DEF EngineReady, Holders, ForExecute
  <2>1. LowerEngine(g, ExecuteHolders) /\ IsFiniteSet(holding)
    BY DEF IInv
  <2>2. ExecuteHolders > 0
    BY <2>1, SomebodyHolds DEF ExecuteHolders
  <2>3. g.execute > 0
    BY <1>1, <1>2, <2>1, <2>2 DEF LowerEngine, One
  <2> QED BY <1>1, <2>3 DEF IInv, Sound, ExecuteSound
<1>6. ResolverReady
  <2> SUFFICES ASSUME NothingFails, NEW u \in holding, Kind[u] \in ForResolver
               PROVE  /\ g.resolverI = TRUE /\ g.threadpool = TRUE /\ g.mutex = TRUE
                      /\ g.executeI = TRUE
    BY DEF ResolverReady, Holders, ForResolver
  <2>1. /\ LowerEngine(g, ExecuteHolders) /\ IsFiniteSet(holding)
        /\ Lower(g, ConfigHolders, ResolverHolders)
    BY DEF IInv, Seen
  <2>2. ResolverHolders > 0
    BY <2>1, SomebodyHolds DEF ResolverHolders
  <2>3. g.resolver > 0
    BY <1>1, <1>2, <2>1, <2>2 DEF Lower
  <2>4. g.execute > 0 /\ g.threadpool = TRUE /\ g.mutex = TRUE
    BY <1>1, <1>2, <2>1, <2>3 DEF LowerEngine, One
  <2> QED BY <1>1, <2>3, <2>4 DEF IInv, Sound, ExecuteSound, ResolverSound
<1> QED BY <1>3, <1>4, <1>5, <1>6 DEF HeldIsReady

\* What a user initialized is there until it cleans up, whatever the other users initialize,
\* override and clean up: the reference counts of config.c, execute.c and resolver.c.
THEOREM Ready == Spec => []HeldIsReady
BY Invariance, HeldInv, PTL

\* When the last user has cleaned up, every global is as the process found it, also where
\* initializations failed: no interface, pool, mutex or override is left behind.
THEOREM LeavesNothing == Spec => []NothingLeft
<1>1. IInv => NothingLeft
  <2> SUFFICES ASSUME IInv, holding = {}
               PROVE  g = Fresh
    BY DEF NothingLeft
  <2>1. /\ g \in Globals /\ g.config \in Nat /\ g.execute \in Nat /\ g.resolver \in Nat
    BY CountsAreNumbers DEF IInv
  <2>2. ConfigHolders = 0 /\ ExecuteHolders = 0 /\ ResolverHolders = 0
    BY NobodyYet DEF ConfigHolders, ExecuteHolders, ResolverHolders
  <2>3. g.config = 0 /\ g.execute = 0 /\ g.resolver = 0
    BY <2>1, <2>2 DEF IInv, Upper, One
  <2>4. \A f \in Counts : g[f] = Fresh[f]
    BY <2>3, FreshValues DEF Counts
  <2>5. \A f \in Flags : g[f] = FALSE
    BY <2>3, FieldNames
       DEF IInv, Sound, ConfigSound, ExecuteSound, ResolverSound, ConfigFlags, Flags
  <2>6. \A f \in Names : g[f] = Fresh[f]
    BY <2>4, <2>5, FreshValues DEF Names
  <2>7. g = [f \in Names |-> g[f]] /\ Fresh = [f \in Names |-> Fresh[f]]
    BY <2>1, FreshType DEF Globals
  <2> QED BY <2>6, <2>7
<1> QED BY <1>1, Invariance, PTL

-----------------------------------------------------------------------------
(* The evaluations of scripts.                                             *)

\* The types.
Steps == {"create", "global", "hook", "register", "utils", "script", "call", "clean",
          "functions", "end", "done"}

EnginesTypeOK ==
    /\ library \in [module : BOOLEAN, found : 0 .. Needed, once : {"fresh", "done"}]
    /\ table \in [1 .. Hooks -> Values \cup {NoValue}]
    /\ pc \in [Evaluations -> Steps]
    /\ hook \in [Evaluations -> 1 .. Hooks]
    /\ result \in [Evaluations -> 0 .. 3]
    /\ made \subseteq Values
    /\ released \in [Values -> Nat]
    /\ failed \in BOOLEAN /\ disturbed \subseteq Evaluations

\* Until something fails, the counts are not below the numbers of those who hold a module.
CountedInv ==
    ~failed => Lower(g, ConfigHolders, ResolverHolders) /\ LowerEngine(g, ExecuteHolders)

\* A library that is there has the functions that were found, JSCore's all of them.
LibraryInv ==
    library.module =>
        library.once = "done" /\ library.found = IF Jsc THEN process.offers ELSE Needed

\* An evaluation that runs has a user that is there, and the library if nobody can have
\* given it away.
RunningInv ==
    /\ \A e \in Evaluations : pc[e] # "done" => e \in process.evaluations
    /\ \A e \in Running : Owner[e] \in holding /\ (Jsc \/ ~failed => library.module)

-----------------------------------------------------------------------------
\* The global context is there to the end.
GlobalInv(e) ==
    /\ pc[e] \in {"create", "global"} => Global(e) \notin made
    /\ released[Global(e)] = IF pc[e] = "done" /\ Global(e) \in made THEN 1 ELSE 0

\* The native functions are made one after the other.
MadeFunctions(e) == {k \in 1 .. Hooks : Function(e, k) \in made}
MadeInv(e) ==
    /\ pc[e] \in {"create", "global", "utils", "script", "call", "clean"} => hook[e] = 1
    /\ pc[e] \in {"create", "global"} \/ ~Jsc => MadeFunctions(e) = {}
    /\ Jsc /\ pc[e] = "hook" => MadeFunctions(e) = 1 .. (hook[e] - 1)
    /\ Jsc /\ pc[e] = "register" => MadeFunctions(e) = 1 .. hook[e]
    /\ pc[e] \in {"register", "functions"} => Jsc

\* Each result is released when the next is there, and the last at the end.
MadeResults(e) == {n \in 1 .. 3 : Result(e, n) \in made}
ResultInv(e) ==
    /\ pc[e] \in {"create", "global", "hook", "register", "utils"} \/ ~Jsc
         => result[e] = 0 /\ MadeResults(e) = {}
    /\ Jsc /\ pc[e] = "script" => result[e] = 1
    /\ Jsc /\ pc[e] = "call" => result[e] = 2
    /\ pc[e] \in {"functions", "end", "done"} => result[e] = 0
    /\ result[e] # 0 => MadeResults(e) = 1 .. result[e]
    /\ \A n \in 1 .. 3 :
          released[Result(e, n)] = IF n \in MadeResults(e) /\ n # result[e] THEN 1 ELSE 0

\* The part of an evaluation that no other one can disturb.
EvaluationInv(e) == GlobalInv(e) /\ MadeInv(e) /\ ResultInv(e)

\* The table holds functions that were made.  Up to where an evaluation that runs has
\* filled or cleared it, they are its own or those of a disturbed one.
Filled(e) ==
    CASE pc[e] = "global" -> 0
      [] pc[e] = "hook" -> hook[e] - 1
      [] pc[e] = "register" -> hook[e]
      [] OTHER -> Hooks
TableInv ==
    /\ \A k \in 1 .. Hooks :
          table[k] # NoValue => table[k] = Function(table[k].by, k) /\ table[k] \in made
    /\ \A e \in Running, k \in 1 .. Hooks :
          Jsc /\ k <= Filled(e) /\ table[k] # NoValue => table[k].by \in disturbed \cup {e}

\* Evaluations of JSC that overlap are disturbed.
AloneInv == Jsc => \A e, x \in Running : e = x \/ {e, x} \subseteq disturbed

\* The functions of an evaluation that was not disturbed are in the table until they are
\* released, one after the other.
OwnInv(e) ==
    /\ e \in Running /\ pc[e] # "end" => \A k \in MadeFunctions(e) : table[k] = Function(e, k)
    /\ \A k \in 1 .. Hooks :
          released[Function(e, k)] =
             IF /\ k \in MadeFunctions(e)
                /\ pc[e] \in {"end", "done"} \/ (pc[e] = "functions" /\ k < hook[e])
             THEN 1 ELSE 0

EveryEvaluationInv == \A e \in Evaluations : EvaluationInv(e)
FunctionsInv == TableInv /\ AloneInv /\ \A e \in Evaluations \ disturbed : OwnInv(e)
ValuesInv == EveryEvaluationInv /\ FunctionsInv

\* The inductive invariant.
EInv == IInv /\ EnginesTypeOK /\ CountedInv /\ LibraryInv /\ RunningInv /\ ValuesInv

\* The names of the values are values.
LEMMA ValuesType ==
    /\ \A e \in Evaluations : Global(e) \in Values
    /\ \A e \in Evaluations, k \in 1 .. Hooks : Function(e, k) \in Values
    /\ \A e \in Evaluations, n \in 1 .. 3 : Result(e, n) \in Values
BY DEF Values, Value, Global, Function, Result

\* The steps of Engines are steps of Lifecycle.
LEMMA LifecycleSteps == [EnginesNext]_engineVars => [Next]_vars
<1> SUFFICES ASSUME EnginesNext
             PROVE  [Next]_vars
  BY DEF engineVars
<1> USE DEF vars, Next
<1>1. CASE \E u \in Users : InitializeUser(u) \/ CleanupUser(u)
  BY <1>1 DEF InitializeUser, CleanupUser
<1>2. CASE \E o \in Overrides : OverrideConfig(o)
  BY <1>2 DEF OverrideConfig
<1>3. CASE \E e \in Evaluations :
              \/ Create(e)
              \/ NewGlobal(e) \/ NoGlobal(e)
              \/ NewFunction(e) \/ RegisterFunction(e) \/ NoFunction(e)
              \/ \E n \in 1 .. 3 : Succeeds(e, n) \/ Throws(e, n)
              \/ ReleaseResult(e) \/ ReleaseFunction(e) \/ ReleaseGlobal(e)
  <2>1. UNCHANGED vars
    BY <1>3 DEF Create, NewGlobal, NoGlobal, NewFunction, RegisterFunction, NoFunction,
                Succeeds, Throws, Evaluate, ReleaseResult, ReleaseFunction, ReleaseGlobal, At
  <2> QED BY <2>1
<1> QED BY <1>1, <1>2, <1>3 DEF EnginesNext

\* An execution with evaluations is one of the users of the library, ...
LEMMA LifecycleRefined == EnginesSpec => Spec
<1>1. EnginesInit => Init
  BY DEF EnginesInit
<1> QED BY <1>1, LifecycleSteps, PTL DEF EnginesSpec, Spec

\* ... so that what a user holds is ready, and nothing is left when nobody holds anything:
\* evaluations disturb neither.
THEOREM EnginesReady == EnginesSpec => [](HeldIsReady /\ NothingLeft)
BY LifecycleRefined, Ready, LeavesNothing, PTL

-----------------------------------------------------------------------------
\* A step of an evaluation that runs, apart from proxy_execute_create.
EvaluationStep(e) ==
    \/ NewGlobal(e) \/ NoGlobal(e)
    \/ NewFunction(e) \/ RegisterFunction(e) \/ NoFunction(e)
    \/ \E n \in 1 .. 3 : Succeeds(e, n) \/ Throws(e, n)
    \/ ReleaseResult(e) \/ ReleaseFunction(e) \/ ReleaseGlobal(e)

\* A step of an evaluation that runs changes its own place in the code and leaves the types
\* and what the users share alone.
LEMMA EvaluationType ==
    ASSUME EnginesTypeOK, NEW e \in Evaluations, EvaluationStep(e)
    PROVE  /\ UNCHANGED <<vars, library, failed>>
           /\ pc[e] \notin {"create", "done"}
           /\ disturbed \subseteq disturbed' /\ disturbed' \subseteq Evaluations
           /\ \E s \in Steps \ {"create"} : pc' = [pc EXCEPT ![e] = s]
           /\ table' \in [1 .. Hooks -> Values \cup {NoValue}]
           /\ \E k \in 1 .. Hooks : hook' = [hook EXCEPT ![e] = k]
           /\ \E n \in 0 .. 3 : result' = [result EXCEPT ![e] = n]
           /\ made' \subseteq Values
           /\ released' \in [Values -> Nat]
<1> USE EnginesAssumption DEF EnginesTypeOK, Steps, At, Goto
<1>1. \A v \in Values : Release(v) => released' \in [Values -> Nat]
  BY DEF Release
<1>2. \A v \in Values : Make(v) => made' \subseteq Values
  BY DEF Make
<1>3. hook = [hook EXCEPT ![e] = hook[e]] /\ result = [result EXCEPT ![e] = result[e]]
  OBVIOUS
<1>4. /\ hook[e] \in 1 .. Hooks /\ 1 \in 1 .. Hooks
      /\ hook[e] < Hooks => hook[e] + 1 \in 1 .. Hooks
  OBVIOUS
<1>5. result[e] # 0 => Result(e, result[e]) \in Values
  <2>1. result[e] # 0 => result[e] \in 1 .. 3
    OBVIOUS
  <2> QED BY <2>1, ValuesType
<1>6. Fails(e) => /\ pc' = [pc EXCEPT ![e] = "clean"]
                  /\ hook' = [hook EXCEPT ![e] = 1]
  BY DEF Fails
<1>16. \A k \in 1 .. Hooks + 1 :
          FailsEarly(e, k) => /\ Fails(e)
                              /\ disturbed \subseteq disturbed' /\ disturbed' \subseteq Evaluations
  <2> SUFFICES ASSUME NEW k \in 1 .. Hooks + 1, FailsEarly(e, k)
               PROVE  disturbed \subseteq disturbed' /\ disturbed' \subseteq Evaluations
    BY DEF FailsEarly
  <2>1. Stale(k) \subseteq Evaluations
    <3> SUFFICES ASSUME NEW i \in k .. Hooks, table[i] # NoValue
                 PROVE  table[i].by \in Evaluations
      BY DEF Stale
    <3>1. i \in 1 .. Hooks
      OBVIOUS
    <3>2. table[i] \in Values
      BY <3>1
    <3> QED BY <3>2 DEF Values
  <2> QED BY <2>1 DEF FailsEarly
<1>7. CASE NewGlobal(e)
  BY <1>2, <1>3, <1>7, ValuesType DEF NewGlobal
<1>8. CASE NoGlobal(e)
  BY <1>3, <1>6, <1>8, <1>16 DEF NoGlobal, values
<1>9. CASE NewFunction(e)
  BY <1>2, <1>3, <1>9, ValuesType DEF NewFunction
<1>10. CASE RegisterFunction(e)
  <2>1. /\ pc[e] \in {"hook", "register"} /\ UNCHANGED <<vars, library, failed, disturbed, table, result, made, released>>
        /\ NextHook(e)
    BY <1>10 DEF RegisterFunction, values
  <2>2. \E k \in 1 .. Hooks : hook' = [hook EXCEPT ![e] = k]
    <3> DEFINE k == IF hook[e] < Hooks THEN hook[e] + 1 ELSE 1
    <3>1. k \in 1 .. Hooks
      BY <1>4
    <3>2. hook' = [hook EXCEPT ![e] = k]
      BY <2>1 DEF NextHook
    <3> HIDE DEF k
    <3> QED BY <3>1, <3>2
  <2>3. \E s \in Steps \ {"create"} : pc' = [pc EXCEPT ![e] = s]
    BY <2>1 DEF NextHook
  <2> QED BY <1>3, <2>1, <2>2, <2>3
<1>11. CASE NoFunction(e)
  <2>1. hook[e] + 1 \in 1 .. Hooks + 1
    BY <1>4
  <2> QED BY <1>3, <1>6, <1>11, <1>16, <2>1 DEF NoFunction, values
<1>12. CASE \E n \in 1 .. 3 : Succeeds(e, n) \/ Throws(e, n)
  <2>1. PICK n \in 1 .. 3 : Succeeds(e, n) \/ Throws(e, n)
    BY <1>12
  <2>2. Evaluate(e, n)
    BY <2>1 DEF Succeeds, Throws
  <2>3. /\ UNCHANGED <<vars, library, failed, disturbed, table>>
        /\ pc[e] \notin {"create", "done"}
    BY <2>2 DEF Evaluate
  <2>4. made' \subseteq Values
    <3>1. Result(e, n) \in Values
      BY ValuesType
    <3> QED BY <1>2, <2>2, <3>1 DEF Evaluate, values
  <2>5. released' \in [Values -> Nat]
    BY <1>1, <1>5, <2>2 DEF Evaluate, values
  <2>6. \E m \in 0 .. 3 : result' = [result EXCEPT ![e] = m]
    <3>1. n \in 0 .. 3
      OBVIOUS
    <3> QED BY <1>3, <2>2, <3>1 DEF Evaluate
  <2>7. /\ \E s \in Steps \ {"create"} : pc' = [pc EXCEPT ![e] = s]
        /\ \E k \in 1 .. Hooks : hook' = [hook EXCEPT ![e] = k]
    BY <1>3, <1>6, <2>1 DEF Succeeds, Throws
  <2> QED BY <2>3, <2>4, <2>6, <2>7, <2>5
<1>13. CASE ReleaseResult(e)
  <2>1. /\ pc[e] = "clean" /\ UNCHANGED <<vars, library, failed, disturbed, table, hook, made>>
        /\ result' = [result EXCEPT ![e] = 0]
        /\ \E s \in Steps \ {"create"} : pc' = [pc EXCEPT ![e] = s]
    BY <1>13 DEF ReleaseResult
  <2>2. released' \in [Values -> Nat]
    BY <1>1, <1>5, <1>13 DEF ReleaseResult
  <2>3. \E n \in 0 .. 3 : result' = [result EXCEPT ![e] = n]
    BY <2>1
  <2>4. pc[e] \notin {"create", "done"} /\ made' \subseteq Values
    BY <2>1
  <2> QED BY <1>3, <2>1, <2>2, <2>3, <2>4
<1>14. CASE ReleaseFunction(e)
  <2>1. /\ pc[e] = "functions" /\ UNCHANGED <<vars, library, failed, disturbed, table, result, made>>
        /\ \E s \in Steps \ {"create"} : pc' = [pc EXCEPT ![e] = s]
    BY <1>14 DEF ReleaseFunction
  <2>2. \E k \in 1 .. Hooks : hook' = [hook EXCEPT ![e] = k]
    <3> DEFINE k == IF hook[e] < Hooks THEN hook[e] + 1 ELSE hook[e]
    <3>1. k \in 1 .. Hooks
      BY <1>4
    <3>2. hook' = [hook EXCEPT ![e] = k]
      BY <1>14 DEF ReleaseFunction
    <3> HIDE DEF k
    <3> QED BY <3>1, <3>2
  <2>3. released' \in [Values -> Nat]
    <3>1. table[hook[e]] # NoValue => table[hook[e]] \in Values
      BY <1>4
    <3> QED BY <1>1, <1>14, <3>1 DEF ReleaseFunction
  <2> QED BY <1>3, <2>1, <2>2, <2>3
<1>15. CASE ReleaseGlobal(e)
  BY <1>1, <1>3, <1>15, ValuesType DEF ReleaseGlobal
<1> QED BY <1>7, <1>8, <1>9, <1>10, <1>11, <1>12, <1>13, <1>14, <1>15 DEF EvaluationStep

\* The steps, with those of an evaluation that runs as one case.
LEMMA NextCases ==
    ASSUME EnginesNext
    PROVE  \/ \E u \in Users : InitializeUser(u) \/ CleanupUser(u)
           \/ \E o \in Overrides : OverrideConfig(o)
           \/ \E e \in Evaluations : Create(e)
           \/ \E e \in Evaluations : EvaluationStep(e)
BY DEF EnginesNext, EvaluationStep

\* What the users do keeps the evaluations, and the library or not.
LEMMA UsersStep ==
    ASSUME \/ \E u \in Users : InitializeUser(u) \/ CleanupUser(u)
           \/ \E o \in Overrides : OverrideConfig(o)
           \/ UNCHANGED engineVars
    PROVE  /\ process' = process
           /\ pc' = pc /\ UNCHANGED run /\ disturbed' = disturbed
           /\ failed \in BOOLEAN => failed' \in BOOLEAN
           /\ library' \in {library, Unloaded}
           /\ (~Jsc /\ g.executeI /\ ~g'.executeI) \/ library' = library
BY DEF InitializeUser, CleanupUser, OverrideConfig, engineVars, history, vars, TakesEngine,
       Initialize, Cleanup, Override

\* proxy_execute_create loads the library or does not.
LEMMA CreateStep ==
    ASSUME EnginesTypeOK, LibraryInv, process \in Processes, NEW e \in Evaluations, Create(e)
    PROVE  /\ UNCHANGED vars /\ UNCHANGED run /\ UNCHANGED failed
           /\ pc[e] = "create" /\ Owner[e] \in holding
           /\ library' \in [module : BOOLEAN, found : 0 .. Needed, once : {"fresh", "done"}]
           /\ library.once = "done" => library' = library
           /\ LibraryInv'
           /\ \/ pc' = [pc EXCEPT ![e] = "global"] /\ library'.module /\ Overlaps(e)
              \/ pc' = [pc EXCEPT ![e] = "done"] /\ disturbed' = disturbed
<1>1. /\ UNCHANGED vars /\ UNCHANGED run /\ UNCHANGED failed
      /\ pc[e] = "create" /\ Owner[e] \in holding
      /\ library' \in IF g.executeI /\ library.once = "fresh" THEN Loaded ELSE {library}
      /\ \/ pc' = [pc EXCEPT ![e] = "global"] /\ library'.module /\ Overlaps(e)
         \/ pc' = [pc EXCEPT ![e] = "done"] /\ disturbed' = disturbed
  BY DEF Create
<1>2. /\ Needed \in Nat \ {0} /\ process.offers \in 0 .. Needed
      /\ process' = process /\ (Jsc' <=> Jsc)
  BY <1>1, EnginesAssumption DEF vars, Jsc
<1>3. CASE ~(g.executeI /\ library.once = "fresh")
  BY <1>1, <1>2, <1>3 DEF EnginesTypeOK, LibraryInv
<1>4. CASE g.executeI /\ library.once = "fresh"
  <2>1. library' \in Loaded
    BY <1>1, <1>4
  <2>2. /\ Unloaded \in [module : BOOLEAN, found : 0 .. Needed, once : {"fresh", "done"}]
        /\ Unloaded.module = FALSE
    BY <1>2 DEF Unloaded
  <2>3. CASE \E flag \in {"fresh", "done"} : library' = [Unloaded EXCEPT !.once = flag]
    <3>1. /\ library' \in [module : BOOLEAN, found : 0 .. Needed, once : {"fresh", "done"}]
          /\ library'.module = FALSE
      BY <2>2, <2>3
    <3> QED BY <1>1, <1>2, <1>4, <3>1 DEF LibraryInv
  <2>4. CASE Jsc /\ library' = [module |-> TRUE, found |-> process.offers, once |-> "done"]
    BY <1>1, <1>2, <1>4, <2>4 DEF LibraryInv
  <2>5. CASE ~Jsc /\ library' = [module |-> TRUE, found |-> Needed, once |-> "done"]
    BY <1>1, <1>2, <1>4, <2>5 DEF LibraryInv
  <2>6. process.installed \in BOOLEAN
    BY EnginesAssumption
  <2> QED BY <2>1, <2>2, <2>3, <2>4, <2>5, <2>6 DEF Loaded, JscLoaded, JscoreLoaded
<1> QED BY <1>3, <1>4

\* Every step keeps the types.
LEMMA EnginesTypeStep ==
    ASSUME EnginesTypeOK, LibraryInv, process \in Processes, [EnginesNext]_engineVars
    PROVE  EnginesTypeOK'
<1>1. CASE \/ \E u \in Users : InitializeUser(u) \/ CleanupUser(u)
           \/ \E o \in Overrides : OverrideConfig(o)
           \/ UNCHANGED engineVars
  <2>1. Unloaded \in [module : BOOLEAN, found : 0 .. Needed, once : {"fresh", "done"}]
    BY EnginesAssumption DEF Unloaded
  <2>2. failed \in BOOLEAN
    BY DEF EnginesTypeOK
  <2> QED BY <1>1, <2>1, <2>2, UsersStep DEF EnginesTypeOK, run, values
<1>2. ASSUME NEW e \in Evaluations, Create(e)
      PROVE  EnginesTypeOK'
  <2>1. \E s \in Steps : pc' = [pc EXCEPT ![e] = s]
    BY <1>2, CreateStep DEF Steps
  <2>2. pc' \in [Evaluations -> Steps]
    BY <2>1 DEF EnginesTypeOK
  <2>3. UNCHANGED run /\ failed' = failed
        /\ library' \in [module : BOOLEAN, found : 0 .. Needed, once : {"fresh", "done"}]
    BY <1>2, CreateStep
  <2>4. disturbed' \subseteq Evaluations
    BY <1>2, CreateStep DEF EnginesTypeOK, Overlaps, Running
  <2> QED BY <2>2, <2>3, <2>4 DEF EnginesTypeOK, run, values
<1>3. ASSUME NEW e \in Evaluations, EvaluationStep(e)
      PROVE  EnginesTypeOK'
  <2>1. /\ library' = library
        /\ \E s \in Steps \ {"create"} : pc' = [pc EXCEPT ![e] = s]
        /\ table' \in [1 .. Hooks -> Values \cup {NoValue}]
        /\ \E k \in 1 .. Hooks : hook' = [hook EXCEPT ![e] = k]
        /\ \E n \in 0 .. 3 : result' = [result EXCEPT ![e] = n]
        /\ made' \subseteq Values /\ released' \in [Values -> Nat]
        /\ failed' = failed /\ disturbed' \subseteq Evaluations
    BY <1>3, EvaluationType
  <2>2. pc' \in [Evaluations -> Steps]
    BY <2>1 DEF EnginesTypeOK
  <2>3. hook' \in [Evaluations -> 1 .. Hooks]
    BY <2>1 DEF EnginesTypeOK
  <2>4. result' \in [Evaluations -> 0 .. 3]
    BY <2>1 DEF EnginesTypeOK
  <2> QED BY <2>1, <2>2, <2>3, <2>4 DEF EnginesTypeOK
<1> QED BY <1>1, <1>2, <1>3, NextCases

\* The bounds from below hold for fewer users, too.
LEMMA FewerHolders ==
    ASSUME NEW s, Sound(s), NEW c \in Nat, NEW e \in Nat, NEW r \in Nat,
           NEW c1 \in Nat, NEW e1 \in Nat, NEW r1 \in Nat, c <= c1, e <= e1, r <= r1,
           Lower(s, c1, r1), LowerEngine(s, e1)
    PROVE  Lower(s, c, r) /\ LowerEngine(s, e)
BY CountsAreNumbers DEF Lower, LowerEngine, One

\* An initialization that leaves the globals as if nothing failed counts its user, ...
LEMMA CountedInitialize ==
    ASSUME IInv, CountedInv, NEW u, InitializeUser(u)
    PROVE  CountedInv'
<1> SUFFICES ASSUME ~failed'
             PROVE  Lower(g', ConfigHolders', ResolverHolders') /\ LowerEngine(g', ExecuteHolders')
  BY DEF CountedInv
<1>1. /\ ~failed /\ g' = CallInit(Kind[u], g, AllSucceed).globals
      /\ u \in process.users /\ u \notin holding
      /\ holding' = holding \/ holding' = holding \cup {u}
  BY DEF InitializeUser, Initialize
<1>2. process \in Processes /\ Sound(g) /\ IsFiniteSet(holding)
  BY DEF IInv
<1>3. Kind[u] \in Kinds /\ AllSucceed \in Environments
  BY <1>1, <1>2, LifecycleAssumption DEF AllSucceed, Environments
<1> DEFINE c1 == ConfigHolders + Adds(Kind[u], ForConfig)
           e1 == ExecuteHolders + Adds(Kind[u], ForExecute)
           r1 == ResolverHolders + Adds(Kind[u], ForResolver)
           ok == CallInit(Kind[u], g, AllSucceed).ok
<1>4. ConfigHolders \in Nat /\ ExecuteHolders \in Nat /\ ResolverHolders \in Nat
  BY <1>2, HoldersAreNumbers
<1>5. /\ c1 \in Nat /\ e1 \in Nat /\ r1 \in Nat
      /\ ConfigHolders <= c1 /\ ExecuteHolders <= e1 /\ ResolverHolders <= r1
  BY <1>4 DEF Adds
<1>6. Lower(g, ConfigHolders, ResolverHolders) /\ LowerEngine(g, ExecuteHolders)
  BY <1>1 DEF CountedInv
<1>7. Sound(g') /\ Lower(g', c1, r1) /\ LowerEngine(g', e1)
  <2>1. /\ Sound(g') /\ ok \in BOOLEAN
        /\ Lower(g, ConfigHolders, ResolverHolders)
             /\ (Kind[u] # "proxyres" \/ (AllSucceed = AllSucceed /\ LowerEngine(g, ExecuteHolders)))
               => IF ok THEN Lower(g', c1, r1) ELSE Lower(g', ConfigHolders, ResolverHolders)
        /\ AllSucceed = AllSucceed /\ LowerEngine(g, ExecuteHolders) => ok /\ LowerEngine(g', e1)
    <3> HIDE DEF c1, e1, r1, ok
    <3> QED BY <1>1, <1>2, <1>3, <1>4, CallInitStep DEF c1, e1, r1, ok
  <2> HIDE DEF c1, e1, r1, ok
  <2> QED BY <1>6, <2>1
<1>8. CASE holding' = holding
  <2>1. /\ ConfigHolders' = ConfigHolders /\ ExecuteHolders' = ExecuteHolders
        /\ ResolverHolders' = ResolverHolders
    BY <1>8 DEF ConfigHolders, ExecuteHolders, ResolverHolders
  <2> HIDE DEF c1, e1, r1
  <2> QED BY <1>4, <1>5, <1>7, <2>1, FewerHolders
<1>9. CASE holding' = holding \cup {u}
  <2>1. ConfigHolders' = c1 /\ ExecuteHolders' = e1 /\ ResolverHolders' = r1
    BY <1>1, <1>2, <1>9, NumberOfOneMore DEF ConfigHolders, ExecuteHolders, ResolverHolders
  <2> QED BY <1>7, <2>1
<1> QED BY <1>1, <1>8, <1>9

\* ... a cleanup gives one back, ...
LEMMA CountedCleanup ==
    ASSUME IInv, CountedInv, NEW u, CleanupUser(u)
    PROVE  CountedInv'
<1> SUFFICES ASSUME ~failed'
             PROVE  Lower(g', ConfigHolders', ResolverHolders') /\ LowerEngine(g', ExecuteHolders')
  BY DEF CountedInv
<1>1. /\ ~failed /\ u \in holding /\ holding' = holding \ {u}
      /\ g' = CallCleanup(Kind[u], g).globals
  BY DEF CleanupUser, Cleanup, history
<1>2. process \in Processes /\ Sound(g) /\ Kind[u] \in Kinds
  BY <1>1, LifecycleAssumption DEF IInv
<1>3. IsFiniteSet(holding') /\ u \notin holding' /\ holding = holding' \cup {u}
  BY <1>1, FS_Subset DEF IInv
<1>4. /\ ConfigHolders = ConfigHolders' + Adds(Kind[u], ForConfig)
      /\ ExecuteHolders = ExecuteHolders' + Adds(Kind[u], ForExecute)
      /\ ResolverHolders = ResolverHolders' + Adds(Kind[u], ForResolver)
      /\ ConfigHolders' \in Nat /\ ExecuteHolders' \in Nat /\ ResolverHolders' \in Nat
  BY <1>3, NumberOfOneMore DEF ConfigHolders, ExecuteHolders, ResolverHolders
<1>5. /\ Lower(g, ConfigHolders, ResolverHolders) => Lower(g', ConfigHolders', ResolverHolders')
      /\ Lower(g, ConfigHolders, ResolverHolders) /\ LowerEngine(g, ExecuteHolders)
           => LowerEngine(g', ExecuteHolders')
  BY <1>1, <1>2, <1>4, CallCleanupStep
<1> QED BY <1>1, <1>5 DEF CountedInv

\* ... and every other step keeps the counts.
LEMMA CountedStep ==
    ASSUME IInv, EnginesTypeOK, LibraryInv, CountedInv, [EnginesNext]_engineVars
    PROVE  CountedInv'
<1>1. process \in Processes /\ g \in Globals
  BY DEF IInv, Sound
<1>2. ASSUME failed' = failed, holding' = holding,
             \A f \in {"config", "execute", "resolver", "threadpool", "mutex"} : g'[f] = g[f]
      PROVE  CountedInv'
  <2>1. /\ ConfigHolders' = ConfigHolders /\ ExecuteHolders' = ExecuteHolders
        /\ ResolverHolders' = ResolverHolders
    BY <1>2 DEF ConfigHolders, ExecuteHolders, ResolverHolders
  <2> QED BY <1>2, <2>1 DEF CountedInv, Lower, LowerEngine
<1>3. CASE \E u \in Users : InitializeUser(u) \/ CleanupUser(u)
  BY <1>3, CountedInitialize, CountedCleanup
<1>4. CASE \E o \in Overrides : OverrideConfig(o)
  BY <1>1, <1>2, <1>4 DEF OverrideConfig, Override, history, Globals, Names, Counts, Flags
<1>5. CASE UNCHANGED engineVars
  BY <1>2, <1>5 DEF engineVars, history, vars
<1>6. ASSUME NEW e \in Evaluations, Create(e)
      PROVE  CountedInv'
  BY <1>2, <1>6 DEF Create, vars
<1>7. ASSUME NEW e \in Evaluations, EvaluationStep(e)
      PROVE  CountedInv'
  BY <1>2, <1>7, EvaluationType DEF vars
<1> QED BY <1>3, <1>4, <1>5, <1>6, <1>7, NextCases

\* A library that is there has what was found when it was loaded after every step.
LEMMA LibraryStep ==
    ASSUME EnginesTypeOK, LibraryInv, process \in Processes, [EnginesNext]_engineVars
    PROVE  LibraryInv'
<1>1. CASE \/ \E u \in Users : InitializeUser(u) \/ CleanupUser(u)
           \/ \E o \in Overrides : OverrideConfig(o)
           \/ UNCHANGED engineVars
  BY <1>1, UsersStep DEF LibraryInv, Unloaded, Jsc
<1>2. ASSUME NEW e \in Evaluations, Create(e)
      PROVE  LibraryInv'
  BY <1>2, CreateStep
<1>3. ASSUME NEW e \in Evaluations, EvaluationStep(e)
      PROVE  LibraryInv'
  BY <1>3, EvaluationType DEF LibraryInv, Jsc, vars
<1> QED BY <1>1, <1>2, <1>3, NextCases

\* The engine of an evaluation that runs is not given away before something fails: its user
\* holds it.
LEMMA RunningStep ==
    ASSUME IInv, IInv', CountedInv', EnginesTypeOK, LibraryInv, RunningInv,
           [EnginesNext]_engineVars
    PROVE  RunningInv'
<1>1. process \in Processes
  BY DEF IInv
<1>2. CASE \/ \E u \in Users : InitializeUser(u) \/ CleanupUser(u)
           \/ \E o \in Overrides : OverrideConfig(o)
           \/ UNCHANGED engineVars
  <2>1. /\ process' = process /\ pc' = pc /\ Running' = Running /\ (Jsc' <=> Jsc)
        /\ (~Jsc /\ g.executeI /\ ~g'.executeI) \/ library' = library
    BY <1>2, UsersStep DEF Running, Jsc
  <2>2. \A e \in Running : Owner[e] \in holding'
    BY <1>2 DEF RunningInv, InitializeUser, CleanupUser, OverrideConfig, engineVars, vars,
                Initialize, Cleanup, Override
  <2>3. failed => failed'
    BY <1>2 DEF InitializeUser, CleanupUser, OverrideConfig, engineVars, history
  <2>4. ASSUME NEW e \in Running, ~failed'
        PROVE  g'.executeI
    <3>1. Kind[Owner[e]] \in ForExecute \cup ForResolver
      BY EnginesAssumption, LifecycleAssumption DEF Kinds, Running, ForExecute, ForResolver
    <3>2. /\ Lower(g', ConfigHolders', ResolverHolders') /\ LowerEngine(g', ExecuteHolders')
          /\ Sound(g') /\ IsFiniteSet(holding')
      BY <2>4 DEF IInv, CountedInv
    <3>3. ExecuteHolders' \in Nat /\ ResolverHolders' \in Nat
      <4>1. \A kinds : IsFiniteSet(HeldBy(holding', kinds))
        BY <3>2, FS_Subset DEF HeldBy
      <4> QED BY <4>1, FS_CardinalityType DEF Number, ExecuteHolders, ResolverHolders
    <3>4. ExecuteHolders' > 0 \/ ResolverHolders' > 0
      <4>1. ASSUME NEW kinds, Kind[Owner[e]] \in kinds
            PROVE  Number(holding', kinds) > 0
        <5>1. IsFiniteSet(HeldBy(holding', kinds)) /\ HeldBy(holding', kinds) # {}
          BY <2>2, <3>2, <4>1, FS_Subset DEF HeldBy
        <5> QED BY <5>1, FS_CardinalityType, FS_EmptySet DEF Number
      <4> QED BY <3>1, <4>1 DEF ExecuteHolders, ResolverHolders
    <3>5. g'.execute > 0
      BY <3>2, <3>3, <3>4, CountsAreNumbers DEF Lower, LowerEngine, One
    <3> QED BY <3>2, <3>5 DEF Sound, ExecuteSound
  <2> QED BY <2>1, <2>2, <2>3, <2>4 DEF RunningInv
<1>3. ASSUME NEW e \in Evaluations, Create(e)
      PROVE  RunningInv'
  <2>1. /\ UNCHANGED vars /\ failed' = failed /\ pc[e] = "create" /\ Owner[e] \in holding
        /\ \/ pc' = [pc EXCEPT ![e] = "global"] /\ library'.module
           \/ pc' = [pc EXCEPT ![e] = "done"]
    BY <1>1, <1>3, CreateStep
  <2>2. library.module => library'.module
    BY <1>3 DEF Create, LibraryInv
  <2> QED BY <2>1, <2>2 DEF RunningInv, Running, EnginesTypeOK, vars, Jsc
<1>4. ASSUME NEW e \in Evaluations, EvaluationStep(e)
      PROVE  RunningInv'
  <2>1. /\ UNCHANGED <<vars, library, failed>> /\ pc[e] \notin {"create", "done"}
        /\ \E s \in Steps \ {"create"} : pc' = [pc EXCEPT ![e] = s]
    BY <1>4, EvaluationType
  <2> QED BY <2>1 DEF RunningInv, Running, EnginesTypeOK, vars, Jsc
<1> QED BY <1>2, <1>3, <1>4, NextCases

-----------------------------------------------------------------------------
\* Values with different makers, kinds or numbers are different.
LEMMA ValuesDistinct ==
    /\ \A e, x : Global(e) = Global(x) <=> e = x
    /\ \A e, x, k, l : Function(e, k) = Function(x, l) <=> e = x /\ k = l
    /\ \A e, x, n, m : Result(e, n) = Result(x, m) <=> e = x /\ n = m
    /\ \A e, x, k : Global(e) # Function(x, k)
    /\ \A e, x, n : Global(e) # Result(x, n)
    /\ \A e, x, k, n : Function(e, k) # Result(x, n)
BY DEF Global, Function, Result, Value

\* A value is a global context, a function or a result.
LEMMA EveryValue ==
    \A v \in Values : \/ v = Global(v.by)
                      \/ \E k \in 1 .. Hooks : v = Function(v.by, k)
                      \/ \E n \in 1 .. 3 : v = Result(v.by, n)
BY DEF Values, Global, Function, Result, Value

\* To make a value adds it to what its evaluation made, and nothing else.
LEMMA Makes ==
    ASSUME NEW e \in Evaluations
    PROVE  /\ Make(Global(e)) =>
                 /\ \A x : MadeFunctions(x)' = MadeFunctions(x) /\ MadeResults(x)' = MadeResults(x)
                 /\ \A x : x # e => (Global(x) \in made' <=> Global(x) \in made)
           /\ \A k \in 1 .. Hooks : Make(Function(e, k)) =>
                 /\ \A x : MadeResults(x)' = MadeResults(x)
                 /\ \A x : Global(x) \in made' <=> Global(x) \in made
                 /\ \A x : x # e => MadeFunctions(x)' = MadeFunctions(x)
                 /\ MadeFunctions(e)' = MadeFunctions(e) \cup {k}
           /\ \A n \in 1 .. 3 : Make(Result(e, n)) =>
                 /\ \A x : MadeFunctions(x)' = MadeFunctions(x)
                 /\ \A x : Global(x) \in made' <=> Global(x) \in made
                 /\ \A x : x # e => MadeResults(x)' = MadeResults(x)
                 /\ MadeResults(e)' = MadeResults(e) \cup {n}
BY ValuesDistinct DEF Make, MadeFunctions, MadeResults

\* An evaluation whose part of the state does not change.
Untouched(x) ==
    /\ process' = process
    /\ pc'[x] = pc[x] /\ hook'[x] = hook[x] /\ result'[x] = result[x]
    /\ Global(x) \in made' <=> Global(x) \in made
    /\ MadeFunctions(x)' = MadeFunctions(x) /\ MadeResults(x)' = MadeResults(x)
    /\ released'[Global(x)] = released[Global(x)]
    /\ \A n \in 1 .. 3 : released'[Result(x, n)] = released[Result(x, n)]

\* An evaluation keeps its invariant while its part of the state does not change.
LEMMA UntouchedStep ==
    ASSUME NEW x \in Evaluations, EvaluationInv(x), Untouched(x)
    PROVE  EvaluationInv(x)'
<1>1. (Jsc' <=> Jsc) /\ (x \in Running' <=> x \in Running)
  BY DEF Untouched, Jsc, Running
<1>2. GlobalInv(x)'
  BY DEF Untouched, EvaluationInv, GlobalInv
<1>3. ResultInv(x)'
  BY <1>1 DEF Untouched, EvaluationInv, ResultInv
<1>4. MadeInv(x)'
  BY <1>1 DEF Untouched, EvaluationInv, MadeInv
<1> QED BY <1>2, <1>3, <1>4 DEF EvaluationInv

\* To release a value counts one release of it.
LEMMA Releases ==
    ASSUME EnginesTypeOK, NEW v \in Values, Release(v)
    PROVE  /\ released'[v] = released[v] + 1
           /\ \A w \in Values : w # v => released'[w] = released[w]
BY DEF Release, EnginesTypeOK

\* Where nothing is released no count changes.
LEMMA ReleasesNothing ==
    ASSUME UNCHANGED released
    PROVE  \A w \in Values : released'[w] = released[w]
OBVIOUS

\* Where nothing is made every evaluation keeps what it made.
LEMMA MakesNothing ==
    ASSUME UNCHANGED made
    PROVE  \A x : /\ MadeFunctions(x)' = MadeFunctions(x) /\ MadeResults(x)' = MadeResults(x)
                  /\ Global(x) \in made' <=> Global(x) \in made
BY DEF MadeFunctions, MadeResults

\* Steps of e make and release nothing but its own, functions apart.
LEMMA OthersUntouched ==
    ASSUME EnginesTypeOK, NEW e \in Evaluations, process' = process,
           \E s : pc' = [pc EXCEPT ![e] = s],
           \E k : hook' = [hook EXCEPT ![e] = k],
           \E n : result' = [result EXCEPT ![e] = n],
           \/ UNCHANGED made
           \/ Make(Global(e))
           \/ \E k \in 1 .. Hooks : Make(Function(e, k))
           \/ \E n \in 1 .. 3 : Make(Result(e, n)),
           \/ UNCHANGED released
           \/ Release(Global(e))
           \/ \E y \in Evaluations, k \in 1 .. Hooks : Release(Function(y, k))
           \/ \E n \in 1 .. 3 : Release(Result(e, n))
    PROVE  \A x \in Evaluations : x # e => Untouched(x)
<1> SUFFICES ASSUME NEW x \in Evaluations, x # e
             PROVE  Untouched(x)
  OBVIOUS
<1>1. pc'[x] = pc[x] /\ hook'[x] = hook[x] /\ result'[x] = result[x]
  BY DEF EnginesTypeOK
<1>2. /\ Global(x) \in made' <=> Global(x) \in made
      /\ MadeFunctions(x)' = MadeFunctions(x) /\ MadeResults(x)' = MadeResults(x)
  BY Makes, MakesNothing
<1>3. ASSUME NEW v \in Values, v # Global(e),
             \A y \in Evaluations, k \in 1 .. Hooks : v # Function(y, k),
             \A n \in 1 .. 3 : v # Result(e, n)
      PROVE  released'[v] = released[v]
  BY <1>3, Releases, ReleasesNothing, ValuesType
<1>4. released'[Global(x)] = released[Global(x)]
  <2>1. /\ Global(x) \in Values /\ Global(x) # Global(e)
        /\ \A y \in Evaluations, k \in 1 .. Hooks : Global(x) # Function(y, k)
        /\ \A n \in 1 .. 3 : Global(x) # Result(e, n)
    BY ValuesType, ValuesDistinct
  <2> QED BY <1>3, <2>1
<1>5. ASSUME NEW m \in 1 .. 3
      PROVE  released'[Result(x, m)] = released[Result(x, m)]
  <2>1. /\ Result(x, m) \in Values /\ Result(x, m) # Global(e)
        /\ \A y \in Evaluations, k \in 1 .. Hooks : Result(x, m) # Function(y, k)
        /\ \A n \in 1 .. 3 : Result(x, m) # Result(e, n)
    BY ValuesType, ValuesDistinct
  <2> QED BY <1>3, <2>1
<1> QED BY <1>1, <1>2, <1>4, <1>5 DEF Untouched

\* The global context is made, and nothing else yet.
LEMMA NewGlobalStep ==
    ASSUME EnginesTypeOK, NEW e \in Evaluations, EvaluationInv(e), NewGlobal(e)
    PROVE  EvaluationInv(e)'
<1>1. /\ process' = process /\ (Jsc' <=> Jsc) /\ pc[e] = "global" /\ pc'[e] = "hook"
      /\ hook' = hook /\ result' = result /\ released' = released /\ table' = table
      /\ Make(Global(e))
  BY DEF NewGlobal, At, Goto, vars, Jsc, EnginesTypeOK
<1>2. MadeFunctions(e)' = MadeFunctions(e) /\ MadeResults(e)' = MadeResults(e)
  BY <1>1, Makes
<1>3. GlobalInv(e)'
  BY <1>1 DEF EvaluationInv, GlobalInv
<1>4. MadeFunctions(e) = {} /\ hook[e] = 1
  BY <1>1 DEF EvaluationInv, MadeInv
<1>5. 1 .. (hook[e] - 1) = {}
  BY <1>4
<1>6. MadeInv(e)'
  BY <1>1, <1>2, <1>4, <1>5 DEF EvaluationInv, MadeInv
<1>7. ResultInv(e)'
  BY <1>1, <1>2 DEF EvaluationInv, ResultInv
<1> QED BY <1>3, <1>6, <1>7 DEF EvaluationInv

\* An evaluation that fails early has no result yet.
LEMMA FailsStep ==
    ASSUME EnginesTypeOK, NEW e \in Evaluations, EvaluationInv(e),
           NoGlobal(e) \/ NoFunction(e)
    PROVE  EvaluationInv(e)'
<1>1. /\ process' = process /\ (Jsc' <=> Jsc)
      /\ pc[e] \in {"global", "hook"} /\ pc'[e] = "clean"
      /\ hook'[e] = 1 /\ result' = result /\ released' = released /\ made' = made
  BY DEF NoGlobal, NoFunction, At, FailsEarly, Fails, Goto, vars, values, Jsc, EnginesTypeOK
<1>2. MadeFunctions(e)' = MadeFunctions(e) /\ MadeResults(e)' = MadeResults(e)
  BY <1>1, MakesNothing
<1>3. GlobalInv(e)'
  BY <1>1 DEF EvaluationInv, GlobalInv
<1>4. (~Jsc => MadeFunctions(e) = {}) /\ result[e] = 0
  BY <1>1 DEF EvaluationInv, MadeInv, ResultInv
<1>5. MadeInv(e)'
  BY <1>1, <1>2, <1>4 DEF EvaluationInv, MadeInv
<1>6. ResultInv(e)'
  BY <1>1, <1>2, <1>4 DEF EvaluationInv, ResultInv
<1> QED BY <1>3, <1>5, <1>6 DEF EvaluationInv

\* The next native function is made and stored in the table.
LEMMA NewFunctionStep ==
    ASSUME EnginesTypeOK, NEW e \in Evaluations, EvaluationInv(e), NewFunction(e)
    PROVE  EvaluationInv(e)'
<1>1. /\ process' = process /\ Jsc /\ Jsc' /\ pc[e] = "hook" /\ pc'[e] = "register"
      /\ hook' = hook /\ result' = result /\ released' = released
      /\ table' = [table EXCEPT ![hook[e]] = Function(e, hook[e])]
      /\ Make(Function(e, hook[e]))
  BY DEF NewFunction, At, Goto, vars, Jsc, EnginesTypeOK
<1>2. hook[e] \in 1 .. Hooks /\ Hooks \in Nat
  BY EnginesAssumption DEF EnginesTypeOK
<1>3. /\ MadeFunctions(e)' = MadeFunctions(e) \cup {hook[e]}
      /\ MadeResults(e)' = MadeResults(e)
      /\ Global(e) \in made' <=> Global(e) \in made
  BY <1>1, <1>2, Makes
<1>4. MadeFunctions(e) = 1 .. (hook[e] - 1)
  BY <1>1 DEF EvaluationInv, MadeInv
<1>5. MadeFunctions(e)' = 1 .. hook[e]
  BY <1>2, <1>3, <1>4
<1>7. GlobalInv(e)'
  BY <1>1, <1>3 DEF EvaluationInv, GlobalInv
<1>8. MadeInv(e)'
  BY <1>1, <1>5 DEF EvaluationInv, MadeInv
<1>9. ResultInv(e)'
  BY <1>1, <1>3 DEF EvaluationInv, ResultInv
<1> QED BY <1>7, <1>8, <1>9 DEF EvaluationInv

\* The function is registered; the last one leaves all of them in the table.
LEMMA RegisterFunctionStep ==
    ASSUME EnginesTypeOK, NEW e \in Evaluations, EvaluationInv(e), RegisterFunction(e)
    PROVE  EvaluationInv(e)'
<1>1. /\ process' = process /\ (Jsc' <=> Jsc)
      /\ IF Jsc THEN pc[e] = "register" ELSE pc[e] = "hook"
      /\ pc'[e] = IF hook[e] < Hooks THEN "hook" ELSE "utils"
      /\ hook'[e] = IF hook[e] < Hooks THEN hook[e] + 1 ELSE 1
      /\ result' = result /\ released' = released /\ made' = made /\ table' = table
  BY DEF RegisterFunction, NextHook, At, Goto, vars, values, Jsc, EnginesTypeOK,
         EvaluationInv, MadeInv
<1>2. hook[e] \in 1 .. Hooks /\ Hooks \in Nat
  BY EnginesAssumption DEF EnginesTypeOK
<1>3. /\ MadeFunctions(e)' = MadeFunctions(e)
      /\ MadeResults(e)' = MadeResults(e)
  BY <1>1, MakesNothing
<1>4. GlobalInv(e)'
  BY <1>1 DEF EvaluationInv, GlobalInv
<1>5. MadeInv(e)'
  <2>1. Jsc => MadeFunctions(e) = 1 .. hook[e]
    BY <1>1 DEF EvaluationInv, MadeInv
  <2>2. ~Jsc => MadeFunctions(e) = {}
    BY DEF EvaluationInv, MadeInv
  <2>3. CASE hook[e] < Hooks
    <3>1. pc'[e] = "hook" /\ hook'[e] - 1 = hook[e]
      BY <1>1, <1>2, <2>3
    <3> QED BY <1>1, <1>3, <2>1, <2>2, <3>1 DEF EvaluationInv, MadeInv
  <2>4. CASE ~ hook[e] < Hooks
    <3>1. pc'[e] = "utils" /\ hook'[e] = 1 /\ hook[e] = Hooks
      BY <1>1, <1>2, <2>4
    <3> QED BY <1>1, <1>3, <2>1, <2>2, <3>1 DEF EvaluationInv, MadeInv
  <2> QED BY <2>3, <2>4
<1>6. ResultInv(e)'
  BY <1>1, <1>3 DEF EvaluationInv, ResultInv
<1> QED BY <1>4, <1>5, <1>6 DEF EvaluationInv

\* A script is evaluated: its result replaces the one before, which is released.
LEMMA EvaluateStep ==
    ASSUME EnginesTypeOK, NEW e \in Evaluations, EvaluationInv(e), NEW n \in 1 .. 3,
           Succeeds(e, n) \/ Throws(e, n)
    PROVE  EvaluationInv(e)'
<1>1. /\ process' = process /\ (Jsc' <=> Jsc) /\ table' = table
      /\ pc[e] = <<"utils", "script", "call">>[n]
      /\ Evaluate(e, n)
      /\ Jsc => Make(Result(e, n)) /\ result' = [result EXCEPT ![e] = n]
      /\ Jsc /\ result[e] # 0 => Release(Result(e, result[e]))
      /\ ~Jsc \/ result[e] = 0 => released' = released
      /\ ~Jsc => result' = result /\ made' = made
  BY DEF Succeeds, Throws, Evaluate, At, vars, values, Jsc
<1>2. \/ n = 1 /\ pc[e] = "utils" /\ (Jsc => result[e] = 0)
      \/ n = 2 /\ pc[e] = "script" /\ (Jsc => result[e] = 1)
      \/ n = 3 /\ pc[e] = "call" /\ (Jsc => result[e] = 2)
  BY <1>1 DEF EvaluationInv, ResultInv
<1>3. /\ hook[e] = 1 /\ hook'[e] = 1
      /\ \/ n = 1 /\ pc'[e] = "script"
         \/ n = 2 /\ pc'[e] = "call"
         \/ pc'[e] = "clean"
  <2>1. hook[e] = 1
    BY <1>2 DEF EvaluationInv, MadeInv
  <2>2. CASE Succeeds(e, n)
    BY <1>2, <2>1, <2>2 DEF Succeeds, Goto, EnginesTypeOK
  <2>3. CASE Throws(e, n)
    BY <2>1, <2>3 DEF Throws, Fails, Goto, EnginesTypeOK
  <2> QED BY <2>2, <2>3
<1>4. CASE ~Jsc
  <2>1. MadeFunctions(e) = {} /\ MadeResults(e) = {} /\ result[e] = 0
    BY <1>4 DEF EvaluationInv, MadeInv, ResultInv
  <2>2. /\ MadeFunctions(e)' = MadeFunctions(e) /\ MadeResults(e)' = MadeResults(e)
        /\ Global(e) \in made' <=> Global(e) \in made
    BY <1>1, <1>4, MakesNothing
  <2>3. GlobalInv(e)'
    BY <1>1, <1>2, <1>3, <1>4, <2>2 DEF EvaluationInv, GlobalInv
  <2>4. MadeInv(e)'
    BY <1>1, <1>2, <1>3, <1>4, <2>1, <2>2 DEF EvaluationInv, MadeInv
  <2>5. ResultInv(e)'
    BY <1>1, <1>2, <1>3, <1>4, <2>1, <2>2 DEF EvaluationInv, ResultInv
  <2> QED BY <2>3, <2>4, <2>5 DEF EvaluationInv
<1>5. CASE Jsc
  <2>1. result[e] = n - 1 /\ MadeResults(e) = 1 .. (n - 1) /\ result'[e] = n
    <3>1. result[e] = n - 1 /\ result'[e] = n
      BY <1>1, <1>2, <1>5 DEF EnginesTypeOK
    <3>2. CASE n = 1
      <4>1. MadeResults(e) = {}
        BY <1>2, <3>2 DEF EvaluationInv, ResultInv
      <4> QED BY <3>1, <3>2, <4>1
    <3>3. CASE n # 1
      BY <3>1, <3>3 DEF EvaluationInv, ResultInv
    <3> QED BY <3>1, <3>2, <3>3
  <2>2. /\ MadeFunctions(e)' = MadeFunctions(e) /\ MadeResults(e)' = 1 .. n
        /\ Global(e) \in made' <=> Global(e) \in made
    <3>1. /\ MadeFunctions(e)' = MadeFunctions(e) /\ MadeResults(e)' = MadeResults(e) \cup {n}
          /\ Global(e) \in made' <=> Global(e) \in made
      BY <1>1, <1>5, Makes
    <3> QED BY <2>1, <3>1
  <2>3. \A v \in Values : v # Result(e, n - 1) => released'[v] = released[v]
    <3>1. CASE n = 1
      BY <1>1, <2>1, <3>1
    <3>2. CASE n # 1
      <4>1. Result(e, n - 1) \in Values /\ Release(Result(e, n - 1))
        <5>1. n - 1 \in 1 .. 3 /\ result[e] = n - 1 /\ result[e] # 0
          BY <2>1, <3>2
        <5> QED BY <1>1, <1>5, <5>1, ValuesType
      <4> QED BY <4>1, Releases
    <3> QED BY <3>1, <3>2
  <2>5. released'[Global(e)] = released[Global(e)]
    BY <2>3, ValuesType, ValuesDistinct
  <2>6. \A m \in 1 .. 3 : released'[Result(e, m)] = IF m < n THEN 1 ELSE 0
    <3> SUFFICES ASSUME NEW m \in 1 .. 3
                 PROVE  released'[Result(e, m)] = IF m < n THEN 1 ELSE 0
      OBVIOUS
    <3>1. released[Result(e, m)] = IF m \in 1 .. (n - 1) /\ m # n - 1 THEN 1 ELSE 0
      BY <2>1 DEF EvaluationInv, ResultInv
    <3>2. CASE m = n - 1
      <4>1. Release(Result(e, m)) /\ Result(e, m) \in Values
        BY <1>1, <1>5, <2>1, <3>2, ValuesType
      <4>2. released'[Result(e, m)] = released[Result(e, m)] + 1
        BY <4>1, Releases
      <4> QED BY <3>1, <3>2, <4>2
    <3>3. CASE m # n - 1
      <4>1. released'[Result(e, m)] = released[Result(e, m)]
        BY <2>3, <3>3, ValuesType, ValuesDistinct
      <4> QED BY <3>1, <3>3, <4>1
    <3> QED BY <3>2, <3>3
  <2>7. GlobalInv(e)'
    BY <1>1, <1>2, <1>3, <2>2, <2>5 DEF EvaluationInv, GlobalInv
  <2>8. MadeInv(e)'
    BY <1>1, <1>2, <1>3, <1>5, <2>2 DEF EvaluationInv, MadeInv
  <2>9. ResultInv(e)'
    BY <1>1, <1>2, <1>3, <1>5, <2>1, <2>2, <2>6 DEF ResultInv
  <2> QED BY <2>7, <2>8, <2>9 DEF EvaluationInv
<1> QED BY <1>4, <1>5

\* The last result is released.
LEMMA ReleaseResultStep ==
    ASSUME EnginesTypeOK, NEW e \in Evaluations, EvaluationInv(e), ReleaseResult(e)
    PROVE  EvaluationInv(e)'
<1>1. /\ process' = process /\ (Jsc' <=> Jsc) /\ table' = table /\ hook' = hook /\ made' = made
      /\ pc[e] = "clean" /\ pc'[e] = IF Jsc THEN "functions" ELSE "end"
      /\ result'[e] = 0 /\ result[e] \in 0 .. 3
      /\ result[e] # 0 => Release(Result(e, result[e]))
      /\ result[e] = 0 => released' = released
  BY DEF ReleaseResult, At, Goto, vars, Jsc, EnginesTypeOK
<1>2. MadeFunctions(e)' = MadeFunctions(e) /\ MadeResults(e)' = MadeResults(e)
  BY <1>1, MakesNothing
<1>3. \A v \in Values : v # Result(e, result[e]) => released'[v] = released[v]
  <2>1. CASE result[e] = 0
    BY <1>1, <2>1
  <2>2. CASE result[e] # 0
    <3>1. Result(e, result[e]) \in Values
      <4>1. result[e] \in 1 .. 3
        BY <1>1, <2>2
      <4> QED BY <4>1, ValuesType
    <3> QED BY <1>1, <2>2, <3>1, Releases
  <2> QED BY <2>1, <2>2
<1>5. released'[Global(e)] = released[Global(e)]
  BY <1>3, ValuesType, ValuesDistinct
<1>6. \A m \in 1 .. 3 : released'[Result(e, m)] = IF m \in MadeResults(e) THEN 1 ELSE 0
  <2> SUFFICES ASSUME NEW m \in 1 .. 3
               PROVE  released'[Result(e, m)] = IF m \in MadeResults(e) THEN 1 ELSE 0
    OBVIOUS
  <2>1. released[Result(e, m)] = IF m \in MadeResults(e) /\ m # result[e] THEN 1 ELSE 0
    BY DEF EvaluationInv, ResultInv
  <2>2. CASE m = result[e]
    <3>1. Release(Result(e, m)) /\ Result(e, m) \in Values
      BY <1>1, <2>2, ValuesType
    <3>2. released'[Result(e, m)] = released[Result(e, m)] + 1
      BY <3>1, Releases
    <3>3. m \in MadeResults(e)
      BY <2>2 DEF EvaluationInv, ResultInv
    <3> QED BY <2>1, <2>2, <3>2, <3>3
  <2>3. CASE m # result[e]
    <3>1. released'[Result(e, m)] = released[Result(e, m)]
      BY <1>3, <2>3, ValuesType, ValuesDistinct
    <3> QED BY <2>1, <2>3, <3>1
  <2> QED BY <2>2, <2>3
<1>7. GlobalInv(e)'
  BY <1>1, <1>5 DEF EvaluationInv, GlobalInv
<1>9. MadeInv(e)'
  BY <1>1, <1>2 DEF EvaluationInv, MadeInv
<1>10. ResultInv(e)'
  BY <1>1, <1>2, <1>6 DEF EvaluationInv, ResultInv
<1> QED BY <1>7, <1>9, <1>10 DEF EvaluationInv

\* A value of the table is a function that an evaluation made, ...
LEMMA TableType ==
    ASSUME EnginesTypeOK, TableInv, NEW k \in 1 .. Hooks, table[k] # NoValue
    PROVE  /\ table[k] \in Values /\ table[k].by \in Evaluations
           /\ table[k] = Function(table[k].by, k)
           /\ k \in MadeFunctions(table[k].by)
<1>1. table[k] = Function(table[k].by, k) /\ table[k] \in made
  BY DEF TableInv
<1>2. table[k] \in Values
  BY <1>1 DEF EnginesTypeOK
<1>3. Function(table[k].by, k) \in made
  BY <1>1
<1> QED BY <1>1, <1>2, <1>3 DEF Values, MadeFunctions

\* ... so that the loop that releases them releases nothing else.
LEMMA ReleaseFunctionStep ==
    ASSUME EnginesTypeOK, TableInv, NEW e \in Evaluations, EvaluationInv(e), ReleaseFunction(e)
    PROVE  /\ EvaluationInv(e)'
           /\ UNCHANGED released \/ \E y \in Evaluations, k \in 1 .. Hooks : Release(Function(y, k))
<1>1. /\ process' = process /\ Jsc /\ (Jsc' <=> Jsc) /\ table' = table
      /\ result' = result /\ made' = made
      /\ pc[e] = "functions" /\ pc'[e] = IF hook[e] < Hooks THEN "functions" ELSE "end"
      /\ IF table[hook[e]] # NoValue THEN Release(table[hook[e]]) ELSE UNCHANGED released
  BY DEF ReleaseFunction, At, Goto, vars, Jsc, EnginesTypeOK, EvaluationInv, MadeInv
<1>2. hook[e] \in 1 .. Hooks
  BY DEF EnginesTypeOK
<1>3. MadeFunctions(e)' = MadeFunctions(e) /\ MadeResults(e)' = MadeResults(e)
  BY <1>1, MakesNothing
<1>4. \/ UNCHANGED released
      \/ \E y \in Evaluations, k \in 1 .. Hooks : Release(Function(y, k)) /\ Function(y, k) \in Values
  <2>1. CASE table[hook[e]] = NoValue
    BY <1>1, <2>1
  <2>2. CASE table[hook[e]] # NoValue
    <3> DEFINE y == table[hook[e]].by
    <3>1. y \in Evaluations /\ table[hook[e]] = Function(y, hook[e]) /\ Function(y, hook[e]) \in Values
      BY <1>2, <2>2, TableType
    <3>2. Release(Function(y, hook[e]))
      BY <1>1, <2>2, <3>1
    <3> HIDE DEF y
    <3> QED BY <1>2, <3>1, <3>2
  <2> QED BY <2>1, <2>2
<1>5. ASSUME NEW v \in Values, \A y \in Evaluations, k \in 1 .. Hooks : v # Function(y, k)
      PROVE  released'[v] = released[v]
  BY <1>4, <1>5, Releases
<1>6. released'[Global(e)] = released[Global(e)]
  BY <1>5, ValuesType, ValuesDistinct
<1>7. \A n \in 1 .. 3 : released'[Result(e, n)] = released[Result(e, n)]
  BY <1>5, ValuesType, ValuesDistinct
<1>8. GlobalInv(e)'
  BY <1>1, <1>6 DEF EvaluationInv, GlobalInv
<1>9. ResultInv(e)'
  BY <1>1, <1>3, <1>7 DEF EvaluationInv, ResultInv
<1>10. MadeInv(e)'
  BY <1>1, <1>3 DEF EvaluationInv, MadeInv
<1> QED BY <1>4, <1>8, <1>9, <1>10 DEF EvaluationInv

\* The global context is released, at the end.
LEMMA ReleaseGlobalStep ==
    ASSUME EnginesTypeOK, NEW e \in Evaluations, EvaluationInv(e), ReleaseGlobal(e)
    PROVE  EvaluationInv(e)'
<1>1. /\ process' = process /\ (Jsc' <=> Jsc) /\ table' = table
      /\ result' = result /\ made' = made /\ hook' = hook
      /\ pc[e] = "end" /\ pc'[e] = "done"
      /\ Global(e) \in made => Release(Global(e))
      /\ Global(e) \notin made => released' = released
  BY DEF ReleaseGlobal, At, Goto, vars, Jsc, EnginesTypeOK
<1>2. MadeFunctions(e)' = MadeFunctions(e) /\ MadeResults(e)' = MadeResults(e)
  BY <1>1, MakesNothing
<1>3. /\ released'[Global(e)] = IF Global(e) \in made THEN 1 ELSE 0
      /\ \A v \in Values : v # Global(e) => released'[v] = released[v]
  <2>1. released[Global(e)] = 0
    BY <1>1 DEF EvaluationInv, GlobalInv
  <2>2. CASE Global(e) \in made
    BY <1>1, <2>1, <2>2, Releases, ValuesType
  <2>3. CASE Global(e) \notin made
    BY <1>1, <2>1, <2>3
  <2> QED BY <2>2, <2>3
<1>5. \A n \in 1 .. 3 : released'[Result(e, n)] = released[Result(e, n)]
  BY <1>3, ValuesType, ValuesDistinct
<1>6. GlobalInv(e)'
  BY <1>1, <1>3 DEF GlobalInv
<1>7. MadeInv(e)'
  BY <1>1, <1>2 DEF EvaluationInv, MadeInv
<1>8. ResultInv(e)'
  BY <1>1, <1>2, <1>5 DEF EvaluationInv, ResultInv
<1> QED BY <1>6, <1>7, <1>8 DEF EvaluationInv

\* Every step of an evaluation keeps the invariant of all evaluations: its own by what the
\* step does, and that of the others as it makes and releases nothing of theirs.
LEMMA EvaluationValues ==
    ASSUME EnginesTypeOK, EveryEvaluationInv, TableInv, NEW e \in Evaluations, EvaluationStep(e)
    PROVE  EveryEvaluationInv'
<1>1. /\ process' = process /\ e \in Running
      /\ \E s : pc' = [pc EXCEPT ![e] = s]
      /\ \E k : hook' = [hook EXCEPT ![e] = k]
      /\ \E n : result' = [result EXCEPT ![e] = n]
  BY EvaluationType DEF Running, vars
<1>2. EvaluationInv(e)
  BY DEF EveryEvaluationInv
<1>3. hook[e] \in 1 .. Hooks
  BY DEF EnginesTypeOK
<1> DEFINE MakesOwn == \/ UNCHANGED made
                       \/ Make(Global(e))
                       \/ \E k \in 1 .. Hooks : Make(Function(e, k))
                       \/ \E n \in 1 .. 3 : Make(Result(e, n))
           ReleasesOwn == \/ UNCHANGED released
                          \/ Release(Global(e))
                          \/ \E y \in Evaluations, k \in 1 .. Hooks : Release(Function(y, k))
                          \/ \E n \in 1 .. 3 : Release(Result(e, n))
<1>4. EvaluationInv(e)' /\ MakesOwn /\ ReleasesOwn
  <2>1. CASE NewGlobal(e)
    BY <1>2, <2>1, NewGlobalStep DEF NewGlobal
  <2>2. CASE NoGlobal(e)
    BY <1>2, <2>2, FailsStep DEF NoGlobal, values
  <2>3. CASE NewFunction(e)
    BY <1>2, <1>3, <2>3, NewFunctionStep DEF NewFunction
  <2>4. CASE RegisterFunction(e)
    BY <1>2, <2>4, RegisterFunctionStep DEF RegisterFunction, values
  <2>5. CASE NoFunction(e)
    BY <1>2, <2>5, FailsStep DEF NoFunction, values
  <2>6. ASSUME NEW n \in 1 .. 3, Succeeds(e, n) \/ Throws(e, n)
        PROVE  EvaluationInv(e)' /\ MakesOwn /\ ReleasesOwn
    <3>1. Evaluate(e, n)
      BY <2>6 DEF Succeeds, Throws
    <3>2. result[e] # 0 => result[e] \in 1 .. 3
      BY DEF EnginesTypeOK
    <3>3. MakesOwn
      BY <3>1 DEF Evaluate, values
    <3>4. ReleasesOwn
      BY <3>1, <3>2 DEF Evaluate, values
    <3> QED BY <1>2, <2>6, <3>3, <3>4, EvaluateStep
  <2>7. CASE ReleaseResult(e)
    <3>1. result[e] # 0 => result[e] \in 1 .. 3
      BY DEF EnginesTypeOK
    <3>2. MakesOwn
      BY <2>7 DEF ReleaseResult
    <3>3. ReleasesOwn
      BY <2>7, <3>1 DEF ReleaseResult
    <3> QED BY <1>2, <2>7, <3>2, <3>3, ReleaseResultStep
  <2>8. CASE ReleaseFunction(e)
    BY <1>2, <2>8, ReleaseFunctionStep DEF ReleaseFunction
  <2>9. CASE ReleaseGlobal(e)
    BY <1>2, <2>9, ReleaseGlobalStep DEF ReleaseGlobal
  <2> QED BY <2>1, <2>2, <2>3, <2>4, <2>5, <2>6, <2>7, <2>8, <2>9 DEF EvaluationStep
<1>5. \A x \in Evaluations : x # e => Untouched(x)
  BY <1>1, <1>4, OthersUntouched
<1> HIDE DEF MakesOwn, ReleasesOwn
<1>6. \A x \in Evaluations : x # e => EvaluationInv(x)'
  BY <1>5, UntouchedStep DEF EveryEvaluationInv
<1> QED BY <1>4, <1>6 DEF EveryEvaluationInv

\* The functions that a step releases: those of the table, at the end.
LEMMA FunctionReleases ==
    ASSUME EnginesTypeOK, NEW e \in Evaluations, EvaluationStep(e), ~ReleaseFunction(e)
    PROVE  \A x \in Evaluations, k \in 1 .. Hooks :
              released'[Function(x, k)] = released[Function(x, k)]
<1>1. \/ UNCHANGED released
      \/ Release(Global(e))
      \/ \E n \in 1 .. 3 : Release(Result(e, n))
  <2>1. result[e] # 0 => result[e] \in 1 .. 3
    BY DEF EnginesTypeOK
  <2>2. CASE \E n \in 1 .. 3 : Succeeds(e, n) \/ Throws(e, n)
    <3>1. \E n \in 1 .. 3 : Evaluate(e, n)
      BY <2>2 DEF Succeeds, Throws
    <3> QED BY <2>1, <3>1 DEF Evaluate, values
  <2>3. CASE ReleaseResult(e)
    BY <2>1, <2>3 DEF ReleaseResult
  <2>4. CASE ReleaseGlobal(e)
    BY <2>4 DEF ReleaseGlobal
  <2>5. CASE NewGlobal(e) \/ NoGlobal(e) \/ NewFunction(e) \/ RegisterFunction(e) \/ NoFunction(e)
    BY <2>5 DEF NewGlobal, NoGlobal, NewFunction, RegisterFunction, NoFunction, values
  <2> QED BY <2>2, <2>3, <2>4, <2>5 DEF EvaluationStep
<1> SUFFICES ASSUME NEW x \in Evaluations, NEW k \in 1 .. Hooks
             PROVE  released'[Function(x, k)] = released[Function(x, k)]
  OBVIOUS
<1>2. Function(x, k) \in Values /\ Function(x, k) # Global(e) /\ \A n \in 1 .. 3 : Function(x, k) # Result(e, n)
  BY ValuesType, ValuesDistinct
<1> QED BY <1>1, <1>2, Releases, ValuesType

\* The table changes where a function is made, or cannot be.
LEMMA TableChanges ==
    ASSUME EnginesTypeOK, NEW e \in Evaluations, EvaluationStep(e)
    PROVE  \A k \in 1 .. Hooks :
              \/ table'[k] = table[k]
              \/ table'[k] = NoValue
              \/ NewFunction(e) /\ k = hook[e] /\ table'[k] = Function(e, k)
<1>1. CASE NewFunction(e)
  BY <1>1 DEF NewFunction, EnginesTypeOK
<1>2. CASE NoFunction(e)
  BY <1>2 DEF NoFunction, EnginesTypeOK
<1>3. CASE ~NewFunction(e) /\ ~NoFunction(e)
  BY <1>3 DEF EvaluationStep, NewGlobal, NoGlobal, RegisterFunction, Succeeds, Throws, Evaluate,
              ReleaseResult, ReleaseFunction, ReleaseGlobal
<1> QED BY <1>1, <1>2, <1>3

\* A step keeps what was made, and the steps of others keep where an evaluation is.
LEMMA StepKeeps ==
    ASSUME EnginesTypeOK, NEW e \in Evaluations, EvaluationStep(e)
    PROVE  /\ (Jsc' <=> Jsc) /\ made \subseteq made' /\ disturbed \subseteq disturbed'
           /\ e \in Running /\ Running' \subseteq Running
           /\ \A x \in Evaluations : x # e =>
                 pc'[x] = pc[x] /\ hook'[x] = hook[x] /\ Filled(x)' = Filled(x)
<1>1. made \subseteq made'
  BY DEF EvaluationStep, NewGlobal, NoGlobal, NewFunction, RegisterFunction, NoFunction,
         Succeeds, Throws, Evaluate, ReleaseResult, ReleaseFunction, ReleaseGlobal, Make, values
<1>2. /\ process' = process /\ pc[e] \notin {"create", "done"} /\ disturbed \subseteq disturbed'
      /\ \E s \in Steps \ {"create"} : pc' = [pc EXCEPT ![e] = s]
      /\ \E k \in 1 .. Hooks : hook' = [hook EXCEPT ![e] = k]
  BY EvaluationType DEF vars
<1>3. \A x \in Evaluations : x # e => pc'[x] = pc[x] /\ hook'[x] = hook[x]
  BY <1>2 DEF EnginesTypeOK
<1>4. \A x \in Evaluations : x # e => Filled(x)' = Filled(x)
  BY <1>3 DEF Filled
<1> QED BY <1>1, <1>2, <1>3, <1>4 DEF Running, Jsc, EnginesTypeOK

\* Where an evaluation of JSC has filled or cleared the table, what it left there is its own or
\* of one that it disturbs.
LEMMA FilledStep ==
    ASSUME EnginesTypeOK, EveryEvaluationInv, TableInv, NEW e \in Evaluations, EvaluationStep(e),
           Jsc, e \in Running', NEW k \in 1 .. Hooks, k <= Filled(e)', table'[k] # NoValue
    PROVE  table'[k].by \in disturbed' \cup {e}
<1>1. disturbed \subseteq disturbed' /\ e \in Running
  BY StepKeeps
<1>2. hook[e] \in 1 .. Hooks /\ Hooks \in Nat /\ MadeInv(e)
  BY EnginesAssumption DEF EnginesTypeOK, EveryEvaluationInv, EvaluationInv
<1>3. ASSUME table'[k] = table[k], k <= Filled(e)
      PROVE  table'[k].by \in disturbed' \cup {e}
  BY <1>1, <1>3 DEF TableInv
<1>4. ASSUME NEW l, FailsEarly(e, l), l <= k, table'[k] = table[k]
      PROVE  table'[k].by \in disturbed' \cup {e}
  <2>1. k \in {i \in l .. Hooks : table[i] # NoValue}
    BY <1>4, <1>2
  <2> QED BY <1>4, <2>1 DEF FailsEarly, Stale
<1>5. CASE NewGlobal(e)
  <2>1. pc'[e] = "hook" /\ hook'[e] = 1
    BY <1>2, <1>5 DEF NewGlobal, At, Goto, EnginesTypeOK, MadeInv
  <2>2. Filled(e)' = 0
    BY <2>1 DEF Filled
  <2> QED BY <2>2
<1>6. CASE NoGlobal(e)
  BY <1>4, <1>6 DEF NoGlobal
<1>7. CASE NewFunction(e)
  <2>1. /\ pc[e] = "hook" /\ pc'[e] = "register" /\ hook'[e] = hook[e]
        /\ table' = [table EXCEPT ![hook[e]] = Function(e, hook[e])]
    BY <1>7 DEF NewFunction, At, Goto, EnginesTypeOK
  <2>2. Filled(e)' = hook[e] /\ Filled(e) = hook[e] - 1
    BY <2>1 DEF Filled
  <2>3. CASE k = hook[e]
    <3>1. table'[k] = Function(e, k)
      BY <2>1, <2>3 DEF EnginesTypeOK
    <3> QED BY <3>1 DEF Function, Value
  <2>4. CASE k # hook[e]
    <3>1. table'[k] = table[k] /\ k <= Filled(e)
      BY <1>2, <2>1, <2>2, <2>4 DEF EnginesTypeOK
    <3> QED BY <1>3, <3>1
  <2> QED BY <2>3, <2>4
<1>8. CASE RegisterFunction(e)
  <2>1. /\ table' = table /\ pc[e] = "register"
        /\ pc'[e] = IF hook[e] < Hooks THEN "hook" ELSE "utils"
        /\ hook'[e] = IF hook[e] < Hooks THEN hook[e] + 1 ELSE 1
    BY <1>8 DEF RegisterFunction, NextHook, At, Goto, EnginesTypeOK
  <2>2. Filled(e) = hook[e] /\ Filled(e)' = hook[e]
    <3>1. CASE hook[e] < Hooks
      BY <1>2, <2>1, <3>1 DEF Filled
    <3>2. CASE ~ hook[e] < Hooks
      <4>1. hook[e] = Hooks /\ pc'[e] = "utils"
        BY <1>2, <2>1, <3>2
      <4> QED BY <2>1, <4>1 DEF Filled
    <3> QED BY <3>1, <3>2
  <2> QED BY <1>3, <2>1, <2>2
<1>9. CASE NoFunction(e)
  <2>1. /\ pc[e] = "hook" /\ FailsEarly(e, hook[e] + 1)
        /\ table' = [table EXCEPT ![hook[e]] = NoValue]
    BY <1>9 DEF NoFunction, At
  <2>2. Filled(e) = hook[e] - 1
    BY <2>1 DEF Filled
  <2>3. k # hook[e] /\ table'[k] = table[k]
    BY <2>1 DEF EnginesTypeOK
  <2>4. k <= Filled(e) \/ hook[e] + 1 <= k
    BY <1>2, <2>2, <2>3
  <2> QED BY <1>3, <1>4, <2>1, <2>3, <2>4
<1>10. CASE \/ \E n \in 1 .. 3 : Succeeds(e, n) \/ Throws(e, n)
            \/ ReleaseResult(e) \/ ReleaseFunction(e) \/ ReleaseGlobal(e)
  <2>1. table' = table /\ pc[e] \in {"utils", "script", "call", "clean", "functions", "end"}
    BY <1>10 DEF Succeeds, Throws, Evaluate, ReleaseResult, ReleaseFunction, ReleaseGlobal, At
  <2>2. Filled(e) = Hooks
    BY <2>1 DEF Filled
  <2> QED BY <1>3, <2>1, <2>2
<1> QED BY <1>5, <1>6, <1>7, <1>8, <1>9, <1>10 DEF EvaluationStep

\* The table keeps its invariant.
LEMMA TableStep ==
    ASSUME EnginesTypeOK, EveryEvaluationInv, TableInv, AloneInv,
           NEW e \in Evaluations, EvaluationStep(e)
    PROVE  TableInv' /\ AloneInv'
<1>1. /\ (Jsc' <=> Jsc) /\ made \subseteq made' /\ disturbed \subseteq disturbed'
      /\ e \in Running /\ Running' \subseteq Running
      /\ \A x \in Evaluations : x # e => Filled(x)' = Filled(x)
  BY StepKeeps
<1>2. \A k \in 1 .. Hooks : \/ table'[k] = table[k]
                            \/ table'[k] = NoValue
                            \/ NewFunction(e) /\ k = hook[e] /\ table'[k] = Function(e, k)
  BY TableChanges
<1>3. \A k \in 1 .. Hooks : Function(e, k).by = e
  BY DEF Function, Value
<1>4. ASSUME NEW k \in 1 .. Hooks, table'[k] # NoValue
      PROVE  table'[k] = Function(table'[k].by, k) /\ table'[k] \in made'
  <2>1. CASE table'[k] = table[k]
    <3>1. table[k] = Function(table[k].by, k) /\ table[k] \in made
      BY <1>4, <2>1 DEF TableInv
    <3> QED BY <1>1, <2>1, <3>1
  <2>2. CASE NewFunction(e) /\ k = hook[e] /\ table'[k] = Function(e, k)
    BY <1>3, <2>2 DEF NewFunction, Make
  <2> QED BY <1>2, <1>4, <2>1, <2>2
<1>5. ASSUME NEW x \in Running', NEW k \in 1 .. Hooks, Jsc', k <= Filled(x)', table'[k] # NoValue
      PROVE  table'[k].by \in disturbed' \cup {x}
  <2>1. CASE x = e
    BY <1>1, <1>5, <2>1, FilledStep
  <2>2. CASE x # e
    <3>1. x \in Running /\ x \in Evaluations /\ k <= Filled(x)
      BY <1>1, <1>5, <2>2 DEF Running
    <3>2. CASE table'[k] = table[k]
      BY <1>1, <1>5, <3>1, <3>2 DEF TableInv
    <3>3. CASE table'[k] = Function(e, k)
      <4>1. e \in disturbed
        BY <1>1, <1>5, <2>2, <3>1 DEF AloneInv
      <4> QED BY <1>1, <1>3, <3>3, <4>1
    <3> QED BY <1>2, <1>5, <3>2, <3>3
  <2> QED BY <2>1, <2>2
<1>6. AloneInv'
  BY <1>1 DEF AloneInv
<1> QED BY <1>4, <1>5, <1>6 DEF TableInv

\* No step takes a function of an evaluation that it does not disturb, ...
LEMMA OthersOwn ==
    ASSUME EnginesTypeOK, EveryEvaluationInv, TableInv, AloneInv,
           NEW e \in Evaluations, EvaluationStep(e),
           NEW x \in Evaluations \ disturbed, x # e, OwnInv(x)
    PROVE  OwnInv(x)'
<1>1. /\ (Jsc' <=> Jsc) /\ e \in Running /\ Running' \subseteq Running
      /\ pc'[x] = pc[x] /\ hook'[x] = hook[x]
  BY StepKeeps
<1>2. MadeFunctions(x)' = MadeFunctions(x)
  <2>1. \/ UNCHANGED made
        \/ Make(Global(e))
        \/ \E k \in 1 .. Hooks : Make(Function(e, k))
        \/ \E n \in 1 .. 3 : Make(Result(e, n))
    <3>1. hook[e] \in 1 .. Hooks
      BY DEF EnginesTypeOK
    <3>2. CASE \E n \in 1 .. 3 : Succeeds(e, n) \/ Throws(e, n)
      <4>1. \E n \in 1 .. 3 : Evaluate(e, n)
        BY <3>2 DEF Succeeds, Throws
      <4> QED BY <4>1 DEF Evaluate, values
    <3>3. CASE ~ \E n \in 1 .. 3 : Succeeds(e, n) \/ Throws(e, n)
      BY <3>1, <3>3 DEF EvaluationStep, NewGlobal, NoGlobal, NewFunction, RegisterFunction,
                        NoFunction, ReleaseResult, ReleaseFunction, ReleaseGlobal, values
    <3> QED BY <3>2, <3>3
  <2> QED BY <2>1, Makes, MakesNothing
<1>3. x \in Running => MadeFunctions(x) = {}
  <2>1. x \in Running => ~Jsc
    BY <1>1 DEF AloneInv
  <2> QED BY <2>1 DEF EveryEvaluationInv, EvaluationInv, MadeInv
<1>4. \A k \in 1 .. Hooks : released'[Function(x, k)] = released[Function(x, k)]
  <2>1. CASE ReleaseFunction(e)
    <3>1. /\ pc[e] = "functions" /\ hook[e] \in 1 .. Hooks /\ Hooks \in Nat /\ Jsc
          /\ IF table[hook[e]] # NoValue THEN Release(table[hook[e]]) ELSE UNCHANGED released
      BY <2>1, EnginesAssumption
         DEF ReleaseFunction, At, EnginesTypeOK, EveryEvaluationInv, EvaluationInv, MadeInv
    <3>2. CASE table[hook[e]] = NoValue
      BY <3>1, <3>2
    <3>3. CASE table[hook[e]] # NoValue
      <4> DEFINE y == table[hook[e]].by
      <4>1. table[hook[e]] = Function(y, hook[e]) /\ table[hook[e]] \in Values
        BY <3>1, <3>3, TableType
      <4>2. hook[e] <= Filled(e)
        BY <3>1 DEF Filled
      <4>3. y \in disturbed \cup {e}
        BY <1>1, <3>1, <3>3, <4>2 DEF TableInv
      <4>4. x # y
        BY <4>3
      <4> HIDE DEF y
      <4>5. \A k \in 1 .. Hooks : Function(x, k) # table[hook[e]]
        BY <4>1, <4>4, ValuesDistinct
      <4> QED BY <3>1, <3>3, <4>1, <4>5, Releases, ValuesType
    <3> QED BY <3>2, <3>3
  <2>2. CASE ~ReleaseFunction(e)
    BY <2>2, FunctionReleases
  <2> QED BY <2>1, <2>2
<1>5. x \in Running' <=> x \in Running
  BY <1>1 DEF Running
<1>6. x \in Running' => MadeFunctions(x)' = {}
  BY <1>2, <1>3, <1>5
<1> QED BY <1>1, <1>2, <1>4, <1>6 DEF OwnInv

\* ... and an evaluation that nobody disturbs finds its own in the table and releases them.
LEMMA OwnReleased ==
    ASSUME EnginesTypeOK, EveryEvaluationInv, TableInv,
           NEW e \in Evaluations \ disturbed, ReleaseFunction(e), OwnInv(e)
    PROVE  OwnInv(e)'
<1>1. /\ table' = table /\ made' = made /\ e \in Running
      /\ pc[e] = "functions" /\ pc'[e] = IF hook[e] < Hooks THEN "functions" ELSE "end"
      /\ hook'[e] = IF hook[e] < Hooks THEN hook[e] + 1 ELSE hook[e]
      /\ IF table[hook[e]] # NoValue THEN Release(table[hook[e]]) ELSE UNCHANGED released
  BY DEF ReleaseFunction, At, Goto, EnginesTypeOK, Running
<1>2. hook[e] \in 1 .. Hooks /\ Hooks \in Nat /\ Jsc
  BY <1>1, EnginesAssumption DEF EnginesTypeOK, EveryEvaluationInv, EvaluationInv, MadeInv
<1>3. MadeFunctions(e)' = MadeFunctions(e)
  BY <1>1, MakesNothing
<1>4. /\ \A k \in MadeFunctions(e) : table[k] = Function(e, k)
      /\ \A k \in 1 .. Hooks :
            released[Function(e, k)] = IF k \in MadeFunctions(e) /\ k < hook[e] THEN 1 ELSE 0
  BY <1>1 DEF OwnInv
<1>5. \A k \in 1 .. Hooks :
         released'[Function(e, k)] = IF k \in MadeFunctions(e) /\ k <= hook[e] THEN 1 ELSE 0
  <2> SUFFICES ASSUME NEW k \in 1 .. Hooks
               PROVE  released'[Function(e, k)]
                         = IF k \in MadeFunctions(e) /\ k <= hook[e] THEN 1 ELSE 0
    OBVIOUS
  <2>1. CASE hook[e] \in MadeFunctions(e)
    <3>1. table[hook[e]] = Function(e, hook[e]) /\ Function(e, hook[e]) \in Values
      BY <1>2, <1>4, <2>1, ValuesType
    <3>2. Release(Function(e, hook[e]))
      BY <1>1, <3>1, EnginesAssumption
    <3>3. CASE k = hook[e]
      <4>1. released'[Function(e, k)] = released[Function(e, k)] + 1
        BY <3>1, <3>2, <3>3, Releases
      <4> QED BY <1>2, <1>4, <2>1, <3>3, <4>1
    <3>4. CASE k # hook[e]
      <4>1. released'[Function(e, k)] = released[Function(e, k)]
        BY <3>1, <3>2, <3>4, Releases, ValuesType, ValuesDistinct
      <4> QED BY <1>2, <1>4, <3>4, <4>1
    <3> QED BY <3>3, <3>4
  <2>2. CASE hook[e] \notin MadeFunctions(e)
    <3>1. released'[Function(e, k)] = released[Function(e, k)]
      <4>1. CASE table[hook[e]] = NoValue
        BY <1>1, <4>1
      <4>2. CASE table[hook[e]] # NoValue
        <5>1. /\ table[hook[e]] \in Values /\ table[hook[e]] = Function(table[hook[e]].by, hook[e])
              /\ hook[e] \in MadeFunctions(table[hook[e]].by)
          BY <1>2, <4>2, TableType
        <5>2. table[hook[e]] # Function(e, k)
          BY <2>2, <5>1, ValuesDistinct
        <5> QED BY <1>1, <4>2, <5>1, <5>2, Releases, ValuesType
      <4> QED BY <4>1, <4>2
    <3> QED BY <1>2, <1>4, <2>2, <3>1
  <2> QED BY <2>1, <2>2
<1>6. CASE hook[e] < Hooks
  <2>1. pc'[e] = "functions" /\ \A k \in 1 .. Hooks : k <= hook[e] <=> k < hook'[e]
    BY <1>1, <1>2, <1>6
  <2> QED BY <1>1, <1>3, <1>4, <1>5, <2>1 DEF OwnInv
<1>7. CASE ~ hook[e] < Hooks
  <2>1. pc'[e] = "end" /\ \A k \in 1 .. Hooks : k <= hook[e]
    BY <1>1, <1>2, <1>7
  <2> QED BY <1>1, <1>3, <1>4, <1>5, <2>1 DEF OwnInv
<1> QED BY <1>6, <1>7

\* Before that none is released.
LEMMA OwnKept ==
    ASSUME EnginesTypeOK, EveryEvaluationInv, EveryEvaluationInv',
           NEW e \in Evaluations \ disturbed, EvaluationStep(e), ~ReleaseFunction(e), OwnInv(e)
    PROVE  OwnInv(e)'
<1>1. \A k \in 1 .. Hooks : released'[Function(e, k)] = released[Function(e, k)]
  BY FunctionReleases
<1>2. hook[e] \in 1 .. Hooks /\ Hooks \in Nat /\ MadeInv(e)
  BY EnginesAssumption DEF EnginesTypeOK, EveryEvaluationInv, EvaluationInv
<1>3. ASSUME pc[e] \notin {"functions", "end", "done"}, pc'[e] \notin {"end", "done"},
             pc'[e] = "functions" => hook'[e] = 1,
             \A k \in MadeFunctions(e)' : table'[k] = Function(e, k)
      PROVE  OwnInv(e)'
  <2>1. \A k \in 1 .. Hooks : released[Function(e, k)] = 0
    BY <1>3 DEF OwnInv
  <2>2. \A k \in 1 .. Hooks : ~ k < 1
    OBVIOUS
  <2> QED BY <1>1, <1>3, <2>1, <2>2 DEF OwnInv
<1>4. e \in Running /\ pc[e] # "end" => \A k \in MadeFunctions(e) : table[k] = Function(e, k)
  BY DEF OwnInv
<1>5. CASE NewGlobal(e) \/ NoGlobal(e)
  <2>1. /\ pc[e] = "global" /\ pc'[e] \in {"hook", "clean"} /\ table' = table
        /\ made' = made \/ Make(Global(e))
    BY <1>5 DEF NewGlobal, NoGlobal, FailsEarly, Fails, At, Goto, values, EnginesTypeOK
  <2>2. MadeFunctions(e)' = MadeFunctions(e) /\ MadeFunctions(e) = {}
    BY <1>2, <2>1, Makes, MakesNothing DEF MadeInv
  <2> QED BY <1>3, <2>1, <2>2
<1>6. CASE NewFunction(e)
  <2>1. /\ pc[e] = "hook" /\ pc'[e] = "register"
        /\ table' = [table EXCEPT ![hook[e]] = Function(e, hook[e])]
        /\ Make(Function(e, hook[e]))
    BY <1>6 DEF NewFunction, At, Goto, EnginesTypeOK
  <2>2. MadeFunctions(e)' = MadeFunctions(e) \cup {hook[e]}
    BY <1>2, <2>1, Makes
  <2>3. \A k \in MadeFunctions(e)' : table'[k] = Function(e, k)
    BY <1>2, <1>4, <2>1, <2>2 DEF EnginesTypeOK, MadeFunctions, Running
  <2> QED BY <1>3, <2>1, <2>3
<1>7. CASE RegisterFunction(e)
  <2>1. /\ pc[e] \in {"hook", "register"} /\ pc'[e] \in {"hook", "utils"}
        /\ table' = table /\ made' = made
    BY <1>7 DEF RegisterFunction, NextHook, At, Goto, values, EnginesTypeOK
  <2>2. \A k \in MadeFunctions(e)' : table'[k] = Function(e, k)
    BY <1>4, <2>1, MakesNothing DEF Running
  <2> QED BY <1>3, <2>1, <2>2
<1>8. CASE NoFunction(e)
  <2>1. /\ pc[e] = "hook" /\ pc'[e] = "clean" /\ made' = made
        /\ table' = IF Jsc THEN [table EXCEPT ![hook[e]] = NoValue] ELSE table
    BY <1>8 DEF NoFunction, FailsEarly, Fails, At, Goto, values, EnginesTypeOK
  <2>2. MadeFunctions(e)' = MadeFunctions(e) /\ hook[e] \notin MadeFunctions(e)
    <3>1. MadeFunctions(e) = {} \/ MadeFunctions(e) = 1 .. (hook[e] - 1)
      BY <1>2, <2>1 DEF MadeInv
    <3> QED BY <1>2, <2>1, <3>1, MakesNothing
  <2>3. \A k \in MadeFunctions(e)' : table'[k] = Function(e, k)
    BY <1>4, <2>1, <2>2 DEF Running, EnginesTypeOK
  <2> QED BY <1>3, <2>1, <2>3
<1>9. ASSUME NEW n \in 1 .. 3, Succeeds(e, n) \/ Throws(e, n)
      PROVE  OwnInv(e)'
  <2>1. /\ Evaluate(e, n) /\ pc[e] = <<"utils", "script", "call">>[n]
        /\ pc'[e] = <<"script", "call", "clean">>[n] \/ pc'[e] = "clean"
    BY <1>9 DEF Succeeds, Throws, Evaluate, Fails, Goto, At, EnginesTypeOK
  <2>2. pc[e] \in {"utils", "script", "call"} /\ pc'[e] \in {"script", "call", "clean"}
    BY <2>1
  <2>3. table' = table /\ (made' = made \/ Make(Result(e, n)))
    BY <2>1 DEF Evaluate, values
  <2>4. \A k \in MadeFunctions(e)' : table'[k] = Function(e, k)
    BY <1>4, <2>2, <2>3, Makes, MakesNothing DEF Running
  <2> QED BY <1>3, <2>2, <2>4
<1>10. CASE ReleaseResult(e)
  <2>1. /\ pc[e] = "clean" /\ pc'[e] = IF Jsc THEN "functions" ELSE "end"
        /\ table' = table /\ made' = made /\ hook' = hook
    BY <1>10 DEF ReleaseResult, At, Goto, EnginesTypeOK
  <2>2. MadeFunctions(e)' = MadeFunctions(e) /\ hook[e] = 1
    BY <1>2, <2>1, MakesNothing DEF MadeInv
  <2>3. CASE Jsc
    BY <1>3, <1>4, <2>1, <2>2, <2>3 DEF Running
  <2>4. CASE ~Jsc
    <3>1. MadeFunctions(e) = {}
      BY <1>2, <2>4 DEF MadeInv
    <3>2. \A k \in 1 .. Hooks : released[Function(e, k)] = 0
      BY <3>1 DEF OwnInv
    <3> QED BY <1>1, <2>2, <3>1, <3>2 DEF OwnInv
  <2> QED BY <2>3, <2>4
<1>11. CASE ReleaseGlobal(e)
  <2>1. pc[e] = "end" /\ pc'[e] = "done" /\ made' = made
    BY <1>11 DEF ReleaseGlobal, At, Goto, EnginesTypeOK
  <2> QED BY <1>1, <2>1, MakesNothing DEF OwnInv, Running
<1> QED BY <1>5, <1>6, <1>7, <1>8, <1>9, <1>10, <1>11 DEF EvaluationStep

\* Every step keeps the invariant of the values: one by a user leaves them alone, and an
\* evaluation that begins disturbs those of JSC that run.
LEMMA ValuesStep ==
    ASSUME EnginesTypeOK, LibraryInv, ValuesInv, process \in Processes,
           [EnginesNext]_engineVars
    PROVE  ValuesInv'
<1>1. CASE \/ \E u \in Users : InitializeUser(u) \/ CleanupUser(u)
           \/ \E o \in Overrides : OverrideConfig(o)
           \/ UNCHANGED engineVars
  <2>1. process' = process /\ pc' = pc /\ UNCHANGED run /\ disturbed' = disturbed
    BY <1>1, UsersStep
  <2>2. /\ (Jsc' <=> Jsc) /\ Running' = Running
        /\ \A x \in Evaluations : /\ Untouched(x) /\ Filled(x)' = Filled(x)
                                  /\ OwnInv(x) => OwnInv(x)'
    BY <2>1 DEF Jsc, Running, Untouched, run, values, MadeFunctions, MadeResults, Filled, OwnInv
  <2>3. EveryEvaluationInv'
    BY <2>2, UntouchedStep DEF ValuesInv, EveryEvaluationInv
  <2>4. TableInv'
    BY <2>1, <2>2 DEF ValuesInv, FunctionsInv, TableInv, run, values, Running
  <2>5. AloneInv'
    BY <2>1, <2>2 DEF ValuesInv, FunctionsInv, AloneInv
  <2> QED BY <2>1, <2>2, <2>3, <2>4, <2>5 DEF ValuesInv, FunctionsInv
<1>2. ASSUME NEW e \in Evaluations, Create(e)
      PROVE  ValuesInv'
  <2>1. /\ UNCHANGED vars /\ UNCHANGED run /\ pc[e] = "create"
        /\ \/ pc' = [pc EXCEPT ![e] = "global"] /\ Overlaps(e)
           \/ pc' = [pc EXCEPT ![e] = "done"] /\ disturbed' = disturbed
    BY <1>2, CreateStep
  <2>2. /\ (Jsc' <=> Jsc) /\ disturbed \subseteq disturbed'
        /\ Running' = Running \/ (Running' = Running \cup {e} /\ Overlaps(e))
        /\ \A x \in Evaluations : x # e => pc'[x] = pc[x]
    BY <2>1 DEF Jsc, vars, Overlaps, Running, EnginesTypeOK
  <2>3. EveryEvaluationInv'
    <3>1. \A x \in Evaluations : x # e => Untouched(x)
      BY <2>1 DEF Untouched, run, values, vars, MadeFunctions, MadeResults, EnginesTypeOK
    <3>2. EvaluationInv(e)
      BY DEF ValuesInv, EveryEvaluationInv
    <3>3. /\ pc'[e] \in {"global", "done"}
          /\ made' = made /\ released' = released /\ result' = result /\ hook' = hook
          /\ MadeFunctions(e)' = MadeFunctions(e) /\ MadeResults(e)' = MadeResults(e)
      BY <2>1 DEF run, values, MadeFunctions, MadeResults, EnginesTypeOK
    <3>4. GlobalInv(e)'
      BY <2>1, <3>2, <3>3 DEF EvaluationInv, GlobalInv
    <3>5. MadeInv(e)'
      BY <2>1, <2>2, <3>2, <3>3 DEF EvaluationInv, MadeInv
    <3>6. ResultInv(e)'
      BY <2>1, <2>2, <3>2, <3>3 DEF EvaluationInv, ResultInv
    <3>7. \A x \in Evaluations : x # e => EvaluationInv(x)'
      BY <3>1, UntouchedStep DEF ValuesInv, EveryEvaluationInv
    <3> QED BY <3>4, <3>5, <3>6, <3>7 DEF EvaluationInv, EveryEvaluationInv
  <2>4. TableInv'
    <3>1. table' = table /\ made' = made /\ hook' = hook
      BY <2>1 DEF run, values
    <3>2. ASSUME NEW x \in Running', NEW k \in 1 .. Hooks, Jsc', k <= Filled(x)',
                 table'[k] # NoValue
          PROVE  table'[k].by \in disturbed' \cup {x}
      <4>1. CASE x = e
        <5>1. pc'[e] = "global"
          BY <2>1, <3>2, <4>1 DEF Running, EnginesTypeOK
        <5>2. Filled(e)' = 0
          BY <5>1 DEF Filled
        <5> QED BY <3>2, <4>1, <5>2
      <4>2. CASE x # e
        <5>1. x \in Running /\ x \in Evaluations /\ Filled(x)' = Filled(x)
          BY <2>2, <3>1, <3>2, <4>2 DEF Running, Filled
        <5> QED BY <2>2, <3>1, <3>2, <5>1 DEF ValuesInv, FunctionsInv, TableInv
      <4> QED BY <4>1, <4>2
    <3> QED BY <3>1, <3>2 DEF ValuesInv, FunctionsInv, TableInv
  <2>5. AloneInv'
    BY <2>2 DEF ValuesInv, FunctionsInv, AloneInv, Overlaps
  <2>6. ASSUME NEW x \in Evaluations \ disturbed'
        PROVE  OwnInv(x)'
    <3>1. OwnInv(x)
      BY <2>2 DEF ValuesInv, FunctionsInv
    <3>2. /\ table' = table /\ released' = released /\ hook' = hook
          /\ MadeFunctions(x)' = MadeFunctions(x)
      BY <2>1 DEF run, values, MadeFunctions
    <3>3. CASE x = e
      <4>1. MadeFunctions(e) = {} /\ pc'[e] \in {"global", "done"}
        BY <2>1 DEF ValuesInv, EveryEvaluationInv, EvaluationInv, MadeInv, EnginesTypeOK
      <4> QED BY <3>1, <3>2, <3>3, <4>1 DEF OwnInv
    <3>4. CASE x # e
      <4>1. pc'[x] = pc[x] /\ (x \in Running' <=> x \in Running)
        BY <2>2, <3>4 DEF Running
      <4> QED BY <3>1, <3>2, <4>1 DEF OwnInv
    <3> QED BY <3>3, <3>4
  <2> QED BY <2>3, <2>4, <2>5, <2>6 DEF ValuesInv, FunctionsInv
<1>3. ASSUME NEW e \in Evaluations, EvaluationStep(e)
      PROVE  ValuesInv'
  <2>1. EveryEvaluationInv'
    BY <1>3, EvaluationValues DEF ValuesInv, FunctionsInv
  <2>2. TableInv' /\ AloneInv'
    BY <1>3, TableStep DEF ValuesInv, FunctionsInv
  <2>3. disturbed \subseteq disturbed'
    BY <1>3, StepKeeps
  <2>4. ASSUME NEW x \in Evaluations \ disturbed'
        PROVE  OwnInv(x)'
    <3>1. x \in Evaluations \ disturbed /\ OwnInv(x)
      BY <2>3 DEF ValuesInv, FunctionsInv
    <3>2. CASE x # e
      BY <1>3, <3>1, <3>2, OthersOwn DEF ValuesInv, FunctionsInv
    <3>3. CASE x = e /\ ReleaseFunction(e)
      BY <3>1, <3>3, OwnReleased DEF ValuesInv, FunctionsInv
    <3>4. CASE x = e /\ ~ReleaseFunction(e)
      BY <1>3, <2>1, <3>1, <3>4, OwnKept DEF ValuesInv
    <3> QED BY <3>2, <3>3, <3>4
  <2> QED BY <2>1, <2>2, <2>4 DEF ValuesInv, FunctionsInv
<1> QED BY <1>1, <1>2, <1>3, NextCases

-----------------------------------------------------------------------------
\* The invariant holds initially, ...
LEMMA EnginesInitInv == EnginesInit => EInv
<1> SUFFICES ASSUME EnginesInit
             PROVE  EInv
  OBVIOUS
<1>1. IInv
  BY InitInv DEF EnginesInit
<1>2. process \in Processes /\ Needed \in Nat \ {0} /\ Hooks \in Nat \ {0}
  BY <1>1, EnginesAssumption DEF IInv
<1>3. EnginesTypeOK
  <2>1. library \in [module : BOOLEAN, found : 0 .. Needed, once : {"fresh", "done"}]
    BY <1>2 DEF EnginesInit, Unloaded
  <2>2. pc \in [Evaluations -> Steps]
    BY DEF EnginesInit, Steps
  <2>3. /\ table \in [1 .. Hooks -> Values \cup {NoValue}]
        /\ hook \in [Evaluations -> 1 .. Hooks] /\ result \in [Evaluations -> 0 .. 3]
        /\ made \subseteq Values /\ released \in [Values -> Nat]
    BY <1>2 DEF EnginesInit
  <2>4. failed \in BOOLEAN /\ disturbed \subseteq Evaluations
    BY DEF EnginesInit
  <2> QED BY <2>1, <2>2, <2>3, <2>4 DEF EnginesTypeOK
<1>4. LibraryInv
  BY DEF EnginesInit, LibraryInv, Unloaded
<1>5. Running = {} /\ RunningInv
  BY DEF EnginesInit, RunningInv, Running
<1>6. CountedInv
  <2>1. g.config = 0 /\ g.execute = 0 /\ g.resolver = 0 /\ holding = {}
    BY FreshValues DEF EnginesInit, Init, Counts
  <2>2. ConfigHolders = 0 /\ ExecuteHolders = 0 /\ ResolverHolders = 0
    BY <2>1, NobodyYet DEF ConfigHolders, ExecuteHolders, ResolverHolders
  <2> QED BY <2>1, <2>2 DEF CountedInv, Lower, LowerEngine, One
<1>7. ValuesInv
  <2>1. ASSUME NEW e \in Evaluations
        PROVE  EvaluationInv(e) /\ OwnInv(e)
    <3>1. /\ pc[e] \in {"create", "done"} /\ hook[e] = 1 /\ result[e] = 0
          /\ MadeFunctions(e) = {} /\ MadeResults(e) = {} /\ Global(e) \notin made
          /\ \A v \in Values : released[v] = 0
      BY DEF EnginesInit, MadeFunctions, MadeResults
    <3>2. GlobalInv(e)
      BY <3>1, ValuesType DEF GlobalInv
    <3>3. MadeInv(e)
      BY <3>1 DEF MadeInv
    <3>4. ResultInv(e)
      BY <3>1, ValuesType DEF ResultInv
    <3>5. OwnInv(e)
      BY <3>1, ValuesType DEF OwnInv
    <3> QED BY <3>2, <3>3, <3>4, <3>5 DEF EvaluationInv
  <2>2. TableInv
    BY <1>5 DEF EnginesInit, TableInv
  <2>3. AloneInv
    BY <1>5 DEF AloneInv
  <2> QED BY <2>1, <2>2, <2>3 DEF ValuesInv, EveryEvaluationInv, FunctionsInv
<1> QED BY <1>1, <1>3, <1>4, <1>5, <1>6, <1>7 DEF EInv

\* ... and every step keeps it.
LEMMA EnginesNextInv == EInv /\ [EnginesNext]_engineVars => EInv'
<1> SUFFICES ASSUME EInv, [EnginesNext]_engineVars
             PROVE  EInv'
  OBVIOUS
<1>1. IInv'
  BY LifecycleSteps, NextInv DEF EInv
<1>2. process \in Processes
  BY DEF EInv, IInv
<1>3. CountedInv'
  BY CountedStep DEF EInv
<1> QED BY <1>1, <1>2, <1>3, EnginesTypeStep, LibraryStep, RunningStep, ValuesStep DEF EInv

\* The invariant holds throughout: the types, the counts until something fails, the library of
\* the evaluations that run, and where each value is between its making and its release.
THEOREM EnginesInvariance == EnginesSpec => []EInv
BY EnginesInitInv, EnginesNextInv, PTL DEF EnginesSpec

\* Every evaluation releases each value it made once and on every path, also where calls of
\* the engine fail and evaluations overlap, and registers the functions that it made: those of
\* an evaluation of JSC that shared the table of execute_jsc.c apart.
THEOREM ValuesReleased == EnginesSpec => []ValuesBalanced
<1>1. EInv => ValuesBalanced
  <2> SUFFICES ASSUME EInv
               PROVE  ValuesBalanced
    OBVIOUS
  <2>1. \A e \in Evaluations : EvaluationInv(e)
    BY DEF EInv, ValuesInv, EveryEvaluationInv
  <2>2. \A e \in Evaluations \ disturbed : OwnInv(e)
    BY DEF EInv, ValuesInv, FunctionsInv
  <2>3. ASSUME NEW v \in Values, ~Shared(v)
        PROVE  /\ released[v] <= IF v \in made THEN 1 ELSE 0
               /\ v \in made /\ pc[v.by] = "done" => released[v] = 1
    <3> DEFINE e == v.by
    <3>1. e \in Evaluations
      BY DEF Values
    <3>2. EvaluationInv(e)
      BY <2>1, <3>1
    <3>3. \A k \in 1 .. Hooks : v = Function(e, k) => OwnInv(e)
      BY <2>2, <2>3, <3>1 DEF Shared, Function, Value
    <3> HIDE DEF e
    <3>4. CASE v = Global(e)
      BY <3>2, <3>4 DEF EvaluationInv, GlobalInv, e
    <3>5. ASSUME NEW k \in 1 .. Hooks, v = Function(e, k)
          PROVE  /\ released[v] <= IF v \in made THEN 1 ELSE 0
                 /\ v \in made /\ pc[v.by] = "done" => released[v] = 1
      BY <3>3, <3>5 DEF OwnInv, MadeFunctions, e
    <3>6. ASSUME NEW n \in 1 .. 3, v = Result(e, n)
          PROVE  /\ released[v] <= IF v \in made THEN 1 ELSE 0
                 /\ v \in made /\ pc[v.by] = "done" => released[v] = 1
      BY <3>2, <3>6 DEF EvaluationInv, ResultInv, MadeResults, e
    <3> QED BY <3>4, <3>5, <3>6, EveryValue DEF e
  <2>4. ASSUME NEW e \in Evaluations \ disturbed, pc[e] = "register"
        PROVE  table[hook[e]] = Function(e, hook[e])
    <3>1. hook[e] \in 1 .. hook[e] /\ EvaluationInv(e) /\ OwnInv(e)
      BY <2>1, <2>2 DEF EInv, EnginesTypeOK
    <3> QED BY <2>4, <3>1 DEF EvaluationInv, MadeInv, OwnInv, Running
  <2> QED BY <2>3, <2>4 DEF ValuesBalanced
<1> QED BY <1>1, EnginesInvariance, PTL

\* Evaluations neither lose the engine, before somebody fails to initialize it on JSCore, nor
\* each other's values, the table of execute_jsc.c apart: whoever initializes, fails and cleans
\* up meanwhile.
THEOREM EnginesSafe == EnginesSpec => []EvaluationsSafe
<1>1. EInv => EngineKept
  BY DEF EInv, RunningInv, LibraryInv, EngineKept
<1> QED BY <1>1, EnginesInvariance, ValuesReleased, PTL DEF EvaluationsSafe
=============================================================================

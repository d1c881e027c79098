---------------------------- MODULE StrigaProofs ----------------------------
(***************************************************************************)
(* Striga's two tools in Python.                                           *)
(*                                                                         *)
(* StrigaImport, for any number of importing processes, of edits and of    *)
(* lengths of a source: as long as no two versions are written in the same *)
(* second, the cached file never stands for a version it is older than or  *)
(* for the other file, and no import returns stale or foreign code.        *)
(*                                                                         *)
(* AstChange, for every input and every tree: each node gets the line it   *)
(* was written on.                                                         *)
(***************************************************************************)
EXTENDS StrigaImport, Sequences, TLAPS

\* What AstChange is about; the two tools share nothing.
CONSTANTS MaxLines, Nodes

VARIABLES
  origdata, class, phase, inlineno, outlineno, data, linemap, parsed, lineno,
  visited

Ast == INSTANCE AstChange

-----------------------------------------------------------------------------
(* striga_import *)

LEMMA InitIInv == Init => IInv
<1> SUFFICES ASSUME Init PROVE IInv
  OBVIOUS
<1> USE ImportAssumption
<1>1. TypeOK
  <2>1. /\ pyc \in [mtime : Nat, size : Nat, code : Imported]
        /\ found \in [Importers -> [code : Imported, path : Suffixes, since : Imported]]
    BY DEF Init, Imported, Suffixes, NoCode
  <2> QED
    BY <2>1 DEF Init, TypeOK, Imported, Suffixes
<1>2. ClockInv /\ SourceInv
  BY DEF Init, ClockInv, SourceInv
<1>3. SeenInv
  BY DEF Init, SeenInv, Seen
<1>4. CachedInv /\ FoundInv
  BY DEF Init, CachedInv, FoundInv, NoCode
<1> QED
  BY <1>1, <1>2, <1>3, <1>4 DEF IInv

-----------------------------------------------------------------------------
(* What the steps do to the state *)

\* An edit adds a version in a later second and leaves the others alone.
LEMMA EditAdds ==
  ASSUME IInv, SharedSeconds = FALSE,
         NEW x \in Suffixes, NEW n \in Sizes, Edit(x, n)
  PROVE  /\ edits \in Nat /\ edits' = edits + 1 /\ edits' \in Versions
         /\ mtime' \in [Versions -> Nat] /\ size' \in [Versions -> Nat]
         /\ suffix' \in [Versions -> Suffixes]
         /\ source' \in [Suffixes -> Imported]
         /\ \A v \in 1 .. edits :
              mtime'[v] = mtime[v] /\ suffix'[v] = suffix[v]
         /\ \A v \in 1 .. edits : mtime[v] < mtime'[edits']
         /\ suffix'[edits'] = x
         /\ source'[x] = edits' /\ source'[x] # NoSource
         /\ \A y \in Suffixes \ {x} : source'[y] = source[y]
<1> USE ImportAssumption
<1>0. TypeOK /\ ClockInv
  BY DEF IInv
<1>1. /\ edits \in Nat /\ edits' = edits + 1 /\ edits' \in Versions
      /\ \A v \in 1 .. edits : v \in Versions /\ v # edits'
  BY <1>0 DEF TypeOK, Edit, Versions
<1>2. /\ size' \in [Versions -> Nat] /\ suffix' \in [Versions -> Suffixes]
      /\ suffix'[edits'] = x
      /\ \A v \in 1 .. edits : suffix'[v] = suffix[v]
  BY <1>0, <1>1 DEF TypeOK, Edit
<1>3. /\ source' \in [Suffixes -> Imported]
      /\ source'[x] = edits' /\ source'[x] # NoSource
      /\ \A y \in Suffixes \ {x} : source'[y] = source[y]
  BY <1>0, <1>1 DEF TypeOK, Edit, Imported, Versions
<1>4. Now \in Nat /\ \A v \in 1 .. edits : mtime[v] <= Now
  <2>1. CASE edits = 0
    BY <2>1 DEF Now
  <2>2. CASE edits # 0
    <3>1. edits \in 1 .. edits /\ edits \in Versions /\ Now = mtime[edits]
      BY <1>1, <2>2, <1>0 DEF Now, TypeOK, Versions
    <3>2. ASSUME NEW v \in 1 .. edits PROVE mtime[v] <= Now
      <4>1. v \in Versions /\ (v = edits \/ v < edits)
        BY <1>1
      <4>2. mtime[v] \in Nat /\ mtime[edits] \in Nat
        BY <1>0, <3>1, <4>1 DEF TypeOK
      <4>3. v < edits => mtime[v] < mtime[edits]
        BY <1>0, <3>1 DEF ClockInv
      <4> QED
        BY <3>1, <4>1, <4>2, <4>3
    <3> QED
      BY <1>0, <3>1, <3>2 DEF TypeOK
  <2> QED
    BY <2>1, <2>2
<1>5. mtime' = [mtime EXCEPT ![edits'] = Now + 1]
  BY <1>4 DEF Edit
<1>6. /\ mtime' \in [Versions -> Nat]
      /\ mtime'[edits'] = Now + 1
      /\ \A v \in 1 .. edits : mtime'[v] = mtime[v]
  BY <1>0, <1>1, <1>4, <1>5 DEF TypeOK
<1>7. \A v \in 1 .. edits : mtime[v] < mtime'[edits']
  BY <1>0, <1>1, <1>4, <1>6 DEF TypeOK
<1> QED
  BY <1>1, <1>2, <1>3, <1>6, <1>7

\* An importer that goes on changes nothing but its own entries.
LEMMA FinishSets ==
  ASSUME TypeOK, NEW i \in Importers, NEW code, Finish(i, code)
  PROVE  /\ pc'[i] = "idle" /\ path'[i] = ".py"
         /\ st'[i] = NoSource /\ source_bytes'[i] = NoSource
         /\ found'[i] = [code |-> code, path |-> path[i], since |-> st[i]]
         /\ \A j \in Importers \ {i} :
              /\ pc'[j] = pc[j] /\ path'[j] = path[j]
              /\ st'[j] = st[j] /\ source_bytes'[j] = source_bytes[j]
              /\ found'[j] = found[j]
  BY DEF TypeOK, Finish

\* An import that ends leaves the types as they are.
LEMMA FinishTypes ==
  ASSUME TypeOK, NEW i \in Importers, NEW code \in Imported, Finish(i, code)
  PROVE  /\ pc' \in [Importers -> {"idle", "stat", "pyc", "read", "compile"}]
         /\ path' \in [Importers -> Suffixes]
         /\ st' \in [Importers -> Imported]
         /\ source_bytes' \in [Importers -> Imported]
         /\ found' \in [Importers ->
                          [code : Imported, path : Suffixes, since : Imported]]
<1>1. [code |-> code, path |-> path[i], since |-> st[i]]
        \in [code : Imported, path : Suffixes, since : Imported]
  BY DEF TypeOK
<1>2. found' \in [Importers ->
                    [code : Imported, path : Suffixes, since : Imported]]
  BY <1>1 DEF TypeOK, Finish
<1> QED
  BY <1>2 DEF TypeOK, Finish, Imported, Suffixes

-----------------------------------------------------------------------------
(* Each part of IInv is preserved by every step *)

LEMMA TypeStep ==
  ASSUME SharedSeconds = FALSE
  PROVE  IInv /\ [Next]_vars => TypeOK'
<1> SUFFICES ASSUME IInv, [Next]_vars PROVE TypeOK'
  OBVIOUS
<1> USE DEF versionVars, importerVars
<1>0. TypeOK /\ SeenInv
  BY DEF IInv
<1>1. ASSUME NEW x \in Suffixes, NEW n \in Sizes, Edit(x, n) PROVE TypeOK'
  <2>1. edits' \in 0 .. MaxEdits
    <3>1. edits' \in Versions
      BY <1>1, EditAdds
    <3> QED
      BY <3>1, ImportAssumption DEF Versions
  <2>2. UNCHANGED <<pyc, pc, path, st, source_bytes, found>>
    BY <1>1 DEF Edit
  <2>3. /\ mtime' \in [Versions -> Nat] /\ size' \in [Versions -> Nat]
        /\ suffix' \in [Versions -> Suffixes]
        /\ source' \in [Suffixes -> Imported]
    BY <1>1, EditAdds
  <2> QED
    BY <1>0, <2>1, <2>2, <2>3 DEF TypeOK
<1>2. ASSUME NEW x \in Suffixes, Remove(x) PROVE TypeOK'
  BY <1>0, <1>2 DEF TypeOK, Remove, Imported
<1>3. CASE Clean
  <2>1. pyc' \in [mtime : Nat, size : Nat, code : Imported]
    BY <1>3 DEF Clean, Imported
  <2> QED
    BY <1>0, <1>3, <2>1 DEF TypeOK, Clean
<1>4. ASSUME NEW i \in Importers, NEW code \in Imported, Finish(i, code),
             UNCHANGED <<versionVars, source>>,
             pyc' \in [mtime : Nat, size : Nat, code : Imported]
      PROVE  TypeOK'
  BY <1>0, <1>4, FinishTypes DEF TypeOK
<1>5. NoSource \in Imported /\ \A x \in Suffixes : source[x] \in Imported
  BY <1>0 DEF TypeOK, Imported
<1>6. ASSUME NEW i \in Importers, Find(i) PROVE TypeOK'
  <2>1. found' \in [Importers ->
                      [code : Imported, path : Suffixes, since : Imported]]
    BY <1>0, <1>6 DEF TypeOK, Find, NoCode, Imported, Suffixes
  <2>2. /\ pc' \in [Importers -> {"idle", "stat", "pyc", "read", "compile"}]
        /\ path' \in [Importers -> Suffixes]
    BY <1>0, <1>6 DEF TypeOK, Find, Goto
  <2> QED
    BY <1>0, <1>6, <2>1, <2>2 DEF TypeOK, Find
<1>7. ASSUME NEW i \in Importers, Stat(i) PROVE TypeOK'
  <2>1. CASE source[path[i]] = NoSource
    BY <1>0, <1>4, <1>5, <1>7, <2>1 DEF Stat, TypeOK
  <2>2. CASE source[path[i]] # NoSource
    <3>1. st' \in [Importers -> Imported]
      BY <1>0, <1>5, <1>7, <2>2 DEF TypeOK, Stat
    <3>2. pc' \in [Importers -> {"idle", "stat", "pyc", "read", "compile"}]
      BY <1>0, <1>7, <2>2 DEF TypeOK, Stat, Goto
    <3> QED
      BY <1>0, <1>7, <2>2, <3>1, <3>2 DEF TypeOK, Stat
  <2> QED
    BY <2>1, <2>2
<1>8. ASSUME NEW i \in Importers, ReadPyc(i) PROVE TypeOK'
  <2>1. CASE Matches(st[i])
    BY <1>0, <1>4, <1>8, <2>1 DEF ReadPyc, TypeOK
  <2>2. CASE ~Matches(st[i])
    <3>1. pc' \in [Importers -> {"idle", "stat", "pyc", "read", "compile"}]
      BY <1>0, <1>8, <2>2 DEF TypeOK, ReadPyc, Goto
    <3> QED
      BY <1>0, <1>8, <2>2, <3>1 DEF TypeOK, ReadPyc
  <2> QED
    BY <2>1, <2>2
<1>9. ASSUME NEW i \in Importers, ReadSource(i) PROVE TypeOK'
  <2>1. CASE source[path[i]] = NoSource
    BY <1>0, <1>4, <1>5, <1>9, <2>1 DEF ReadSource, TypeOK
  <2>2. CASE source[path[i]] # NoSource
    <3>1. source_bytes' \in [Importers -> Imported]
      BY <1>0, <1>5, <1>9, <2>2 DEF TypeOK, ReadSource
    <3>2. pc' \in [Importers -> {"idle", "stat", "pyc", "read", "compile"}]
      BY <1>0, <1>9, <2>2 DEF TypeOK, ReadSource, Goto
    <3> QED
      BY <1>0, <1>9, <2>2, <3>1, <3>2 DEF TypeOK, ReadSource
  <2> QED
    BY <2>1, <2>2
<1>10. ASSUME NEW i \in Importers, CompileFails(i) \/ CompileOnly(i) PROVE TypeOK'
  BY <1>0, <1>4, <1>5, <1>10 DEF CompileFails, CompileOnly, TypeOK
<1>11. ASSUME NEW i \in Importers, CompileAndWrite(i) PROVE TypeOK'
  <2>1. st[i] \in Versions /\ source_bytes[i] \in Versions
    BY <1>0, <1>11 DEF TypeOK, SeenInv, Seen, CompileAndWrite, Compiles, Imported
  <2>2. pyc' \in [mtime : Nat, size : Nat, code : Imported]
    BY <1>0, <1>11, <2>1 DEF TypeOK, CompileAndWrite, Imported
  <2> QED
    BY <1>0, <1>4, <1>11, <2>2 DEF TypeOK, CompileAndWrite
<1>12. CASE UNCHANGED vars
  BY <1>0, <1>12 DEF TypeOK, vars
<1> QED
  BY <1>1, <1>2, <1>3, <1>6, <1>7, <1>8, <1>9, <1>10, <1>11, <1>12
     DEF Next, Programmer, Import

\* Only an edit touches the versions, and only the programmer the files.
LEMMA OthersLookOn ==
  ASSUME [Next]_vars
  PROVE  /\ (~ \E x \in Suffixes, n \in Sizes : Edit(x, n)) =>
              UNCHANGED versionVars
         /\ ~ Programmer => UNCHANGED <<versionVars, source>>
         /\ Programmer => UNCHANGED importerVars
<1> USE DEF versionVars, importerVars
<1>1. CASE Programmer
  BY <1>1 DEF Programmer, Clean, Remove, Edit
<1>2. ASSUME NEW i \in Importers, Import(i)
      PROVE  UNCHANGED <<versionVars, source>>
  BY <1>2
     DEF Import, Find, Stat, ReadPyc, ReadSource, CompileFails, CompileOnly,
         CompileAndWrite
<1>3. CASE UNCHANGED vars
  BY <1>3 DEF vars
<1> QED
  BY <1>1, <1>2, <1>3 DEF Next

\* The versions written so far stay what they are, whatever happens.
LEMMA PastIsFixed ==
  ASSUME IInv, SharedSeconds = FALSE, [Next]_vars
  PROVE  /\ edits \in Nat /\ edits' \in Nat /\ edits <= edits'
         /\ \A v \in 1 .. edits :
              /\ v \in 1 .. edits'
              /\ mtime'[v] = mtime[v] /\ suffix'[v] = suffix[v]
<1>1. edits \in Nat
  BY ImportAssumption DEF IInv, TypeOK
<1>2. ASSUME NEW x \in Suffixes, NEW n \in Sizes, Edit(x, n)
      PROVE  edits' = edits + 1 /\ \A v \in 1 .. edits :
               mtime'[v] = mtime[v] /\ suffix'[v] = suffix[v]
  BY <1>2, EditAdds
<1>3. CASE UNCHANGED versionVars
  BY <1>1, <1>3 DEF versionVars
<1> QED
  BY <1>1, <1>2, <1>3, OthersLookOn

\* A file holds what it held, or nothing, or the version just written.
LEMMA FileGoesForward ==
  ASSUME IInv, SharedSeconds = FALSE, [Next]_vars, NEW x \in Suffixes
  PROVE  \/ source'[x] = source[x]
         \/ source'[x] = NoSource
         \/ source'[x] = edits' /\ edits < edits' /\ suffix'[edits'] = x
<1>0. TypeOK
  BY DEF IInv
<1>1. ASSUME NEW y \in Suffixes, NEW n \in Sizes, Edit(y, n)
      PROVE  \/ source'[x] = source[x]
             \/ source'[x] = edits' /\ edits < edits' /\ suffix'[edits'] = x
  <2>1. /\ edits \in Nat /\ edits' = edits + 1
        /\ suffix'[edits'] = y /\ source'[y] = edits'
        /\ \A z \in Suffixes \ {y} : source'[z] = source[z]
    BY <1>1, EditAdds
  <2> QED
    BY <2>1
<1>2. ASSUME NEW y \in Suffixes, Remove(y)
      PROVE  source'[x] = source[x] \/ source'[x] = NoSource
  BY <1>0, <1>2 DEF TypeOK, Remove
<1>3. CASE Clean
  BY <1>3 DEF Clean
<1> QED
  BY <1>1, <1>2, <1>3, OthersLookOn DEF Programmer

LEMMA ClockStep ==
  ASSUME SharedSeconds = FALSE
  PROVE  IInv /\ [Next]_vars => ClockInv'
<1> SUFFICES ASSUME IInv, [Next]_vars PROVE ClockInv'
  OBVIOUS
<1>0. ClockInv /\ edits \in Nat
  BY PastIsFixed DEF IInv
<1>1. ASSUME NEW x \in Suffixes, NEW n \in Sizes, Edit(x, n) PROVE ClockInv'
  <2>1. /\ edits' = edits + 1
        /\ \A v \in 1 .. edits : mtime'[v] = mtime[v]
        /\ \A v \in 1 .. edits : mtime[v] < mtime'[edits']
    BY <1>1, EditAdds
  <2>2. ASSUME NEW v \in 1 .. edits', NEW w \in 1 .. edits', v < w
        PROVE  mtime'[v] < mtime'[w]
    <3>1. v \in 1 .. edits /\ (w \in 1 .. edits \/ w = edits')
      BY <1>0, <2>1, <2>2
    <3> QED
      BY <1>0, <2>1, <2>2, <3>1 DEF ClockInv
  <2> QED
    BY <2>2 DEF ClockInv
<1>2. CASE UNCHANGED versionVars
  BY <1>0, <1>2 DEF ClockInv, versionVars
<1> QED
  BY <1>1, <1>2, OthersLookOn

LEMMA SourceStep ==
  ASSUME SharedSeconds = FALSE
  PROVE  IInv /\ [Next]_vars => SourceInv'
<1> SUFFICES ASSUME IInv, [Next]_vars,
                    NEW x \in Suffixes, source'[x] # NoSource
             PROVE  source'[x] \in 1 .. edits' /\ suffix'[source'[x]] = x
  BY DEF SourceInv
<1>1. SourceInv
  BY DEF IInv
<1>2. CASE source'[x] = source[x]
  <2>1. source[x] \in 1 .. edits /\ suffix[source[x]] = x
    BY <1>1, <1>2 DEF SourceInv
  <2>2. /\ source[x] \in 1 .. edits'
        /\ suffix'[source[x]] = suffix[source[x]]
    BY <2>1, PastIsFixed
  <2> QED
    BY <1>2, <2>1, <2>2
<1>3. CASE source'[x] = edits' /\ edits < edits' /\ suffix'[edits'] = x
  <2>1. edits \in Nat /\ edits' \in Nat
    BY PastIsFixed
  <2>2. edits' \in 1 .. edits'
    BY <1>3, <2>1
  <2> QED
    BY <1>3, <2>2
<1> QED
  BY <1>2, <1>3, FileGoesForward

\* An importer that does not move has seen what it has seen.
LEMMA SeenStays ==
  ASSUME IInv, SharedSeconds = FALSE, [Next]_vars,
         NEW i \in Importers,
         pc'[i] = pc[i], path'[i] = path[i],
         st'[i] = st[i], source_bytes'[i] = source_bytes[i]
  PROVE  Seen(i)'
<1>1. Seen(i) /\ path[i] \in Suffixes
  BY DEF IInv, TypeOK, SeenInv
<1>2. ASSUME st[i] # NoSource
      PROVE  /\ st[i] \in 1 .. edits' /\ suffix'[st[i]] = path[i]
             /\ source'[path[i]] # NoSource => st[i] <= source'[path[i]]
  <2>1. st[i] \in 1 .. edits /\ suffix[st[i]] = path[i]
    BY <1>1, <1>2 DEF Seen
  <2>a. st[i] \in 1 .. edits' /\ suffix'[st[i]] = suffix[st[i]]
    BY <2>1, PastIsFixed
  <2>2. st[i] \in 1 .. edits' /\ suffix'[st[i]] = path[i] /\ st[i] <= edits'
    BY <2>1, <2>a, PastIsFixed
  <2>3. \/ source'[path[i]] = source[path[i]]
        \/ source'[path[i]] = NoSource
        \/ source'[path[i]] = edits'
    BY <1>1, FileGoesForward
  <2> QED
    BY <1>1, <1>2, <2>2, <2>3 DEF Seen
<1>3. ASSUME source_bytes[i] # NoSource
      PROVE  source_bytes[i] \in 1 .. edits' /\ suffix'[source_bytes[i]] = path[i]
  BY <1>1, <1>3, PastIsFixed DEF Seen
<1> QED
  BY <1>1, <1>2, <1>3 DEF Seen

LEMMA SeenStep ==
  ASSUME SharedSeconds = FALSE
  PROVE  IInv /\ [Next]_vars => SeenInv'
<1> SUFFICES ASSUME IInv, [Next]_vars, NEW i \in Importers PROVE Seen(i)'
  BY DEF SeenInv
<1>0. TypeOK /\ Seen(i) /\ SourceInv /\ edits \in Nat
  BY PastIsFixed DEF IInv, SeenInv
<1>1. CASE Programmer \/ UNCHANGED vars
  BY <1>1, SeenStays, OthersLookOn DEF vars, importerVars
<1>2. ASSUME NEW j \in Importers \ {i}, Import(j) PROVE Seen(i)'
  <2>1. /\ pc'[i] = pc[i] /\ path'[i] = path[i]
        /\ st'[i] = st[i] /\ source_bytes'[i] = source_bytes[i]
    BY <1>0, <1>2
       DEF TypeOK, Import, Find, Stat, ReadPyc, ReadSource, CompileFails,
           CompileOnly, CompileAndWrite, Finish, Goto
  <2> QED
    BY <2>1, SeenStays
<1>3. ASSUME NEW code, Finish(i, code) PROVE Seen(i)'
  BY <1>0, <1>3, FinishSets DEF Seen
<1>4. CASE Find(i)
  <2>1. /\ pc[i] = "idle" /\ pc'[i] = "stat"
        /\ st'[i] = st[i] /\ source_bytes'[i] = source_bytes[i]
    BY <1>0, <1>4 DEF Find, Goto, TypeOK
  <2>2. st[i] = NoSource /\ source_bytes[i] = NoSource
    BY <1>0, <2>1 DEF Seen
  <2> QED
    BY <2>1, <2>2 DEF Seen
<1>5. CASE Stat(i) /\ source[path[i]] # NoSource
  <2>1. /\ pc[i] = "stat" /\ pc'[i] = "pyc"
        /\ path'[i] = path[i] /\ source_bytes'[i] = source_bytes[i]
        /\ st'[i] = source[path[i]] /\ path[i] \in Suffixes
        /\ UNCHANGED <<edits, suffix, source>>
    BY <1>0, <1>5 DEF Stat, Goto, TypeOK, versionVars
  <2>2. /\ source[path[i]] \in 1 .. edits
        /\ suffix[source[path[i]]] = path[i]
    BY <1>0, <1>5, <2>1 DEF SourceInv
  <2>3. source_bytes[i] = NoSource
    BY <1>0, <2>1 DEF Seen
  <2> QED
    BY <1>0, <1>5, <2>1, <2>2, <2>3 DEF Seen
<1>6. CASE ReadPyc(i) /\ ~Matches(st[i])
  <2>1. /\ pc[i] = "pyc" /\ pc'[i] = "read"
        /\ UNCHANGED <<path, st, source_bytes, edits, suffix, source>>
    BY <1>0, <1>6 DEF ReadPyc, Goto, TypeOK, versionVars
  <2> QED
    BY <1>0, <2>1 DEF Seen
<1>7. CASE ReadSource(i) /\ source[path[i]] # NoSource
  <2>1. /\ pc[i] = "read" /\ pc'[i] = "compile" /\ path[i] \in Suffixes
        /\ source_bytes'[i] = source[path[i]]
        /\ UNCHANGED <<path, st, edits, suffix, source>>
    BY <1>0, <1>7 DEF ReadSource, Goto, TypeOK, versionVars
  <2>2. /\ source[path[i]] \in 1 .. edits
        /\ suffix[source[path[i]]] = path[i]
    BY <1>0, <1>7, <2>1 DEF SourceInv
  <2> QED
    BY <1>0, <1>7, <2>1, <2>2 DEF Seen
<1>8. CASE Import(i)
  BY <1>3, <1>4, <1>5, <1>6, <1>7, <1>8
     DEF Import, Stat, ReadPyc, ReadSource, CompileFails, CompileOnly,
         CompileAndWrite
<1> QED
  BY <1>1, <1>2, <1>8 DEF Next

\* No step of an importer that finishes, and none of the programmer but the
\* emptying of the cache, touches the cached file.
LEMMA OnlyCompileWrites ==
  ASSUME [Next]_vars, pyc' # pyc
  PROVE  \/ pyc'.code = NoSource
         \/ \E i \in Importers : CompileAndWrite(i)
<1> USE DEF versionVars, importerVars
<1>1. CASE Programmer
  BY <1>1 DEF Programmer, Clean, Remove, Edit
<1>2. ASSUME NEW i \in Importers, Import(i), ~CompileAndWrite(i) PROVE FALSE
  BY <1>2
     DEF Import, Find, Stat, ReadPyc, ReadSource, CompileFails, CompileOnly
<1>3. CASE UNCHANGED vars
  BY <1>3 DEF vars
<1> QED
  BY <1>1, <1>2, <1>3 DEF Next

LEMMA CachedStep ==
  ASSUME SharedSeconds = FALSE
  PROVE  IInv /\ [Next]_vars => CachedInv'
<1> SUFFICES ASSUME IInv, [Next]_vars, pyc'.code # NoSource
             PROVE  /\ pyc'.code \in 1 .. edits' /\ suffix'[pyc'.code] = ".py"
                    /\ \E v \in 1 .. pyc'.code :
                         pyc'.mtime = mtime'[v] /\ suffix'[v] = ".py"
  BY DEF CachedInv
<1>0. TypeOK /\ SeenInv /\ CachedInv
  BY DEF IInv
<1>1. CASE pyc' = pyc
  <2>1. pyc.code \in 1 .. edits /\ suffix[pyc.code] = ".py"
    BY <1>0, <1>1 DEF CachedInv
  <2>2. PICK v \in 1 .. pyc.code : pyc.mtime = mtime[v] /\ suffix[v] = ".py"
    BY <1>0, <1>1 DEF CachedInv
  <2>3. v \in 1 .. edits
    <3>1. edits \in Nat
      BY PastIsFixed
    <3> QED
      BY <2>1, <2>2, <3>1
  <2>4. /\ pyc.code \in 1 .. edits' /\ suffix'[pyc.code] = suffix[pyc.code]
        /\ mtime'[v] = mtime[v] /\ suffix'[v] = suffix[v]
    BY <2>1, <2>3, PastIsFixed
  <2> QED
    BY <1>1, <2>1, <2>2, <2>4
<1>2. ASSUME NEW i \in Importers, CompileAndWrite(i)
      PROVE  /\ pyc'.code \in 1 .. edits' /\ suffix'[pyc'.code] = ".py"
             /\ \E v \in 1 .. pyc'.code :
                  pyc'.mtime = mtime'[v] /\ suffix'[v] = ".py"
  <2>1. /\ pc[i] = "compile" /\ path[i] = ".py"
        /\ pyc'.code = source_bytes[i] /\ pyc'.mtime = mtime[st[i]]
        /\ UNCHANGED <<edits, mtime, suffix>>
    BY <1>0, <1>2 DEF CompileAndWrite, Compiles, TypeOK, Suffixes, versionVars
  <2>2. /\ st[i] \in 1 .. edits /\ suffix[st[i]] = ".py"
        /\ source_bytes[i] \in 1 .. edits /\ suffix[source_bytes[i]] = ".py"
        /\ st[i] <= source_bytes[i]
    BY <1>0, <2>1 DEF SeenInv, Seen
  <2>3. st[i] \in 1 .. source_bytes[i]
    BY <2>2, PastIsFixed
  <2> QED
    BY <2>1, <2>2, <2>3
<1> QED
  BY <1>1, <1>2, OnlyCompileWrites

\* A cached file that is taken for a version has code of the same file that
\* is not older.
LEMMA HonestLemma == IInv => CacheIsHonest
<1> SUFFICES ASSUME IInv, NEW v \in 1 .. edits, Matches(v)
             PROVE  /\ pyc.code >= v /\ suffix[pyc.code] = suffix[v]
                    /\ pyc.code \in 1 .. edits /\ suffix[pyc.code] = ".py"
  BY DEF CacheIsHonest
<1>0. TypeOK /\ ClockInv /\ CachedInv /\ edits \in Nat
  BY ImportAssumption DEF IInv, TypeOK
<1>1. pyc.code # NoSource /\ pyc.mtime = mtime[v]
  BY DEF Matches
<1>2. PICK w \in 1 .. pyc.code : pyc.mtime = mtime[w] /\ suffix[w] = ".py"
  BY <1>0, <1>1 DEF CachedInv
<1>3. pyc.code \in 1 .. edits /\ suffix[pyc.code] = ".py"
  BY <1>0, <1>1 DEF CachedInv
<1>4. w \in 1 .. edits /\ w <= pyc.code
  BY <1>0, <1>3
<1>5. v = w
  <2>1. mtime[v] \in Nat /\ mtime[w] \in Nat
    <3>1. v \in Versions /\ w \in Versions
      BY <1>0, <1>4, ImportAssumption DEF TypeOK, Versions
    <3> QED
      BY <1>0, <3>1 DEF TypeOK
  <2>2. /\ v < w => mtime[v] < mtime[w]
        /\ w < v => mtime[w] < mtime[v]
    BY <1>0, <1>4 DEF ClockInv
  <2>3. mtime[v] = mtime[w] /\ v \in Int /\ w \in Int
    BY <1>0, <1>1, <1>2, <1>4
  <2> QED
    BY <2>1, <2>2, <2>3
<1> QED
  BY <1>2, <1>3, <1>4, <1>5

LEMMA FoundStep ==
  ASSUME SharedSeconds = FALSE
  PROVE  IInv /\ [Next]_vars => FoundInv'
<1> SUFFICES ASSUME IInv, [Next]_vars,
                    NEW i \in Importers, found'[i].code # NoSource
             PROVE  /\ found'[i].code \in 1 .. edits'
                    /\ found'[i].since \in 1 .. found'[i].code
                    /\ suffix'[found'[i].code] = found'[i].path
                    /\ found'[i].path = ".py"
  BY DEF FoundInv
<1>0. /\ TypeOK /\ SeenInv /\ FoundInv
      /\ edits \in Nat
  BY PastIsFixed DEF IInv
<1>1. CASE found'[i] = found[i]
  <2>1. /\ found[i].code \in 1 .. edits
        /\ found[i].since \in 1 .. found[i].code
        /\ suffix[found[i].code] = found[i].path /\ found[i].path = ".py"
    BY <1>0, <1>1 DEF FoundInv
  <2>2. /\ found[i].code \in 1 .. edits'
        /\ suffix'[found[i].code] = suffix[found[i].code]
    BY <2>1, PastIsFixed
  <2> QED
    BY <1>1, <2>1, <2>2
<1>2. ASSUME NEW code, Finish(i, code), UNCHANGED <<edits, suffix>>,
             pc[i] \in {"pyc", "compile"},
             code # NoSource =>
               /\ code \in 1 .. edits /\ st[i] <= code
               /\ suffix[code] = ".py" /\ path[i] = ".py"
      PROVE  /\ found'[i].code \in 1 .. edits'
             /\ found'[i].since \in 1 .. found'[i].code
             /\ suffix'[found'[i].code] = found'[i].path
             /\ found'[i].path = ".py"
  <2>1. found'[i] = [code |-> code, path |-> path[i], since |-> st[i]]
    BY <1>0, <1>2, FinishSets
  <2>2. st[i] \in 1 .. edits
    BY <1>0, <1>2 DEF SeenInv, Seen
  <2>3. code # NoSource
    BY <2>1
  <2>4. st[i] \in 1 .. code
    <3>1. code \in 1 .. edits /\ st[i] <= code
      BY <1>2, <2>3
    <3> QED
      BY <1>0, <2>2, <3>1
  <2> QED
    BY <1>2, <2>1, <2>3, <2>4
<1>3. CASE ReadPyc(i) /\ Matches(st[i])
  <2>1. /\ pc[i] = "pyc" /\ Finish(i, pyc.code)
        /\ UNCHANGED <<edits, suffix>>
    BY <1>3 DEF ReadPyc, versionVars
  <2>2. st[i] \in 1 .. edits /\ suffix[st[i]] = path[i]
    BY <1>0, <2>1 DEF SeenInv, Seen
  <2>3. pyc.code >= st[i] /\ suffix[pyc.code] = suffix[st[i]]
    BY <1>3, <2>2, HonestLemma DEF CacheIsHonest
  <2>4. pyc.code \in 1 .. edits /\ suffix[pyc.code] = ".py"
    BY <1>3 DEF Matches, IInv, CachedInv
  <2> QED
    BY <1>2, <2>1, <2>2, <2>3, <2>4
<1>4. CASE CompileOnly(i) \/ CompileAndWrite(i)
  <2>1. /\ pc[i] = "compile" /\ path[i] = ".py"
        /\ Finish(i, source_bytes[i])
        /\ UNCHANGED <<edits, suffix>>
    BY <1>0, <1>4
       DEF CompileOnly, CompileAndWrite, Compiles, versionVars, TypeOK, Suffixes
  <2>2. /\ source_bytes[i] \in 1 .. edits /\ st[i] <= source_bytes[i]
        /\ suffix[source_bytes[i]] = ".py"
    BY <1>0, <2>1 DEF SeenInv, Seen
  <2> QED
    BY <1>2, <2>1, <2>2
<1>5. CASE Finish(i, NoSource)
  <2>1. found'[i] = [code |-> NoSource, path |-> path[i], since |-> st[i]]
    BY <1>0, <1>5, FinishSets
  <2> QED
    BY <2>1
<1>6. CASE Find(i)
  <2>1. found'[i] = NoCode
    BY <1>0, <1>6 DEF Find, TypeOK
  <2> QED
    BY <2>1 DEF NoCode
<1>7. ASSUME NEW j \in Importers \ {i}, Import(j) PROVE found'[i] = found[i]
  BY <1>0, <1>7
     DEF TypeOK, Import, Find, Stat, ReadPyc, ReadSource, CompileFails,
         CompileOnly, CompileAndWrite, Finish
<1>8. CASE Import(i)
  BY <1>1, <1>3, <1>4, <1>5, <1>6, <1>8
     DEF Import, Stat, ReadPyc, ReadSource, CompileFails
<1>9. CASE Programmer \/ UNCHANGED vars
  BY <1>1, <1>9, OthersLookOn DEF importerVars, vars
<1> QED
  BY <1>1, <1>7, <1>8, <1>9 DEF Next

-----------------------------------------------------------------------------
(* Theorems *)

\* IInv is an inductive invariant if every version has a second of its own.
THEOREM Invariance ==
  ASSUME SharedSeconds = FALSE
  PROVE  Spec => []IInv
<1>1. Init => IInv
  BY InitIInv
<1>2. IInv /\ [Next]_vars => IInv'
  BY TypeStep, ClockStep, SourceStep, SeenStep, CachedStep, FoundStep DEF IInv
<1> QED
  BY <1>1, <1>2, PTL DEF Spec

\* Whatever version the cached file that foo.py and foo.stpy share would be
\* taken for, its code is of the same file and not older, however the steps of
\* the importers and of the programmer interleave.
THEOREM CacheCorrect ==
  ASSUME SharedSeconds = FALSE
  PROVE  Spec => []CacheIsHonest
<1>1. IInv => CacheIsHonest
  BY HonestLemma
<1> QED
  BY <1>1, Invariance, PTL

\* An import returns code of the file it has found, in a version at least as
\* new as the one that file held when the import looked, and never runs a
\* '.stpy' file.
THEOREM ImportCorrect ==
  ASSUME SharedSeconds = FALSE
  PROVE  Spec => []CodeIsFresh
<1>1. IInv => CodeIsFresh
  <2> SUFFICES ASSUME IInv, NEW i \in Importers, found[i].code # NoSource
               PROVE  /\ found[i].code >= found[i].since
                      /\ suffix[found[i].code] = found[i].path
                      /\ found[i].path # ".stpy"
    BY DEF CodeIsFresh
  <2>1. /\ found[i].code \in 1 .. edits
        /\ found[i].since \in 1 .. found[i].code
        /\ suffix[found[i].code] = found[i].path /\ found[i].path = ".py"
    BY DEF IInv, FoundInv
  <2> QED
    BY <2>1
<1> QED
  BY <1>1, Invariance, PTL

-----------------------------------------------------------------------------
(* ast_change *)

\* The invariant holds of every input before the first line is looked at.
LEMMA AstInitCorrect == Ast!Init => Ast!IInv
<1> SUFFICES ASSUME Ast!Init PROVE Ast!IInv
  OBVIOUS
<1>1. PICK n \in 0 .. MaxLines : origdata \in [1 .. n -> BOOLEAN]
  BY DEF Ast!Init
<1>2. origdata \in Seq(BOOLEAN)
  BY <1>1
<1> QED
  BY <1>2 DEF Ast!Init, Ast!IInv, Ast!TypeInv, Ast!MapInv, Ast!NodeInv, Ast!LinesAreOriginal

\* A dropped line changes neither the text nor the map.
LEMMA AstSkipLineCorrect == Ast!IInv /\ Ast!SkipLine => Ast!IInv'
<1> SUFFICES ASSUME Ast!IInv, Ast!SkipLine PROVE Ast!IInv'
  OBVIOUS
<1> USE DEF Ast!SkipLine, Ast!source
<1>1. Ast!TypeInv'
  BY DEF Ast!IInv, Ast!TypeInv
<1>2. Ast!MapInv'
  BY DEF Ast!IInv, Ast!MapInv
<1>3. Ast!NodeInv'
  BY DEF Ast!IInv, Ast!NodeInv
<1>4. Ast!LinesAreOriginal'
  BY DEF Ast!IInv, Ast!LinesAreOriginal
<1> QED
  BY <1>1, <1>2, <1>3, <1>4 DEF Ast!IInv

\* A line that is kept goes to the end of the text and of the map alike.
LEMMA AstTakeLineCorrect == Ast!IInv /\ Ast!TakeLine => Ast!IInv'
<1> SUFFICES ASSUME Ast!IInv, Ast!TakeLine PROVE Ast!IInv'
  OBVIOUS
<1> USE DEF Ast!TakeLine, Ast!source, Ast!add_line_mapping
<1>1. Ast!TypeInv'
  BY DEF Ast!IInv, Ast!TypeInv
<1>2. Ast!MapInv'
  <2>1. inlineno \in 1 .. Len(origdata) /\ ~origdata[inlineno]
    BY DEF Ast!IInv, Ast!TypeInv
  <2>2. Len(data') = Len(data) + 1
    BY DEF Ast!IInv, Ast!TypeInv
  <2>3. outlineno' = Len(data') + 1
    BY <2>2 DEF Ast!IInv, Ast!TypeInv, Ast!MapInv
  <2>4. DOMAIN linemap' = 1 .. Len(data')
    BY <2>2 DEF Ast!IInv, Ast!TypeInv, Ast!MapInv
  <2>5. ASSUME NEW k \in 1 .. Len(data')
        PROVE  /\ linemap'[k] = data'[k]
               /\ data'[k] \in 1 .. Len(origdata) /\ ~origdata[data'[k]]
    <3>1. CASE k = Len(data')
      BY <2>1, <2>2, <3>1 DEF Ast!IInv, Ast!TypeInv, Ast!MapInv
    <3>2. CASE k # Len(data')
      BY <2>2, <3>2 DEF Ast!IInv, Ast!TypeInv, Ast!MapInv
    <3> QED
      BY <3>1, <3>2
  <2> QED
    BY <2>3, <2>4, <2>5 DEF Ast!MapInv
<1>3. Ast!NodeInv'
  BY DEF Ast!IInv, Ast!NodeInv
<1>4. Ast!LinesAreOriginal'
  BY DEF Ast!IInv, Ast!NodeInv, Ast!LinesAreOriginal
<1> QED
  BY <1>1, <1>2, <1>3, <1>4 DEF Ast!IInv

\* Whatever tree the compiler builds, its nodes stand on lines of the map.
LEMMA AstParseCorrect == Ast!IInv /\ Ast!Parse => Ast!IInv'
<1> SUFFICES ASSUME Ast!IInv, Ast!Parse PROVE Ast!IInv'
  OBVIOUS
<1> USE DEF Ast!Parse, Ast!source
<1>1. Ast!TypeInv'
  BY DEF Ast!IInv, Ast!TypeInv
<1>2. Ast!MapInv'
  BY DEF Ast!IInv, Ast!MapInv
<1>3. Ast!NodeInv'
  BY DEF Ast!IInv, Ast!NodeInv
<1>4. Ast!LinesAreOriginal'
  BY DEF Ast!IInv, Ast!NodeInv, Ast!LinesAreOriginal
<1> QED
  BY <1>1, <1>2, <1>3, <1>4 DEF Ast!IInv

\* A node is translated from its line in the text, once.
LEMMA AstVisitCorrect ==
  ASSUME Ast!IInv, NEW n \in Nodes, Ast!Visit(n)
  PROVE  Ast!IInv'
<1> USE DEF Ast!Visit, Ast!source
<1>1. parsed[n] \in 1 .. Len(data) /\ lineno[n] = parsed[n]
  BY DEF Ast!IInv, Ast!NodeInv
<1>2. lineno[n] \in DOMAIN linemap
  BY <1>1 DEF Ast!IInv, Ast!MapInv
<1>3. linemap[lineno[n]] = data[parsed[n]]
  BY <1>1 DEF Ast!IInv, Ast!MapInv
<1>4. data[parsed[n]] \in 1 .. Len(origdata) /\ ~origdata[data[parsed[n]]]
  BY <1>1 DEF Ast!IInv, Ast!MapInv
<1>5. phase' = phase
  BY <1>2
<1>6. lineno' = IF class[n] = "other" THEN lineno
                ELSE [lineno EXCEPT ![n] = data[parsed[n]]]
  BY <1>2, <1>3
<1>7. Ast!TypeInv'
  BY <1>4, <1>5, <1>6 DEF Ast!IInv, Ast!TypeInv
<1>8. Ast!MapInv'
  BY DEF Ast!IInv, Ast!MapInv
<1>9. Ast!NodeInv'
  BY <1>5, <1>6 DEF Ast!IInv, Ast!TypeInv, Ast!NodeInv
<1>10. Ast!LinesAreOriginal'
  <2>1. ASSUME NEW m \in visited', class[m] # "other"
        PROVE  /\ parsed[m] \in 1 .. Len(data)
               /\ lineno'[m] = data[parsed[m]]
               /\ lineno'[m] \in 1 .. Len(origdata) /\ ~origdata[lineno'[m]]
    <3>1. CASE m = n
      BY <1>1, <1>4, <1>6, <2>1, <3>1 DEF Ast!IInv, Ast!TypeInv
    <3>2. CASE m # n
      BY <1>6, <2>1, <3>2 DEF Ast!IInv, Ast!TypeInv, Ast!LinesAreOriginal
    <3> QED
      BY <3>1, <3>2
  <2> QED
    BY <1>5, <2>1 DEF Ast!IInv, Ast!LinesAreOriginal
<1> QED
  BY <1>7, <1>8, <1>9, <1>10 DEF Ast!IInv

\* The map, the text and the tree agree at every step, for every input and
\* every tree.
THEOREM AstInvariance == Ast!Spec => []Ast!IInv
<1>1. Ast!Init => Ast!IInv
  BY AstInitCorrect
<1>2. Ast!IInv /\ [Ast!Next]_Ast!vars => Ast!IInv'
  <2> SUFFICES ASSUME Ast!IInv, [Ast!Next]_Ast!vars PROVE Ast!IInv'
    OBVIOUS
  <2>1. CASE Ast!SkipLine
    BY <2>1, AstSkipLineCorrect
  <2>2. CASE Ast!TakeLine
    BY <2>2, AstTakeLineCorrect
  <2>3. CASE Ast!Parse
    BY <2>3, AstParseCorrect
  <2>4. ASSUME NEW n \in Nodes, Ast!Visit(n) PROVE Ast!IInv'
    BY <2>4, AstVisitCorrect
  <2>5. CASE UNCHANGED Ast!vars
    BY <2>5 DEF Ast!vars, Ast!source, Ast!IInv, Ast!TypeInv, Ast!MapInv,
                Ast!NodeInv, Ast!LinesAreOriginal
  <2> QED
    BY <2>1, <2>2, <2>3, <2>4, <2>5 DEF Ast!Next
<1> QED
  BY <1>1, <1>2, PTL DEF Ast!Spec

\* Statements and expressions get the line of the input they stand on, and
\* the translation never fails.
THEOREM AstLinesCorrect == Ast!Spec => []Ast!LinesAreOriginal
<1>1. Ast!IInv => Ast!LinesAreOriginal
  BY DEF Ast!IInv
<1> QED
  BY <1>1, AstInvariance, PTL
=============================================================================

---------------------------- MODULE StrigaImport ----------------------------
(***************************************************************************)
(* Importing one module through striga_import (striga_imp.py and           *)
(* FutureSourceFileLoader of _srcfileldr.py): processes that find the      *)
(* source, take compiled code from the cached file next to it or compile   *)
(* the source and write that file, while the sources are edited.           *)
(*                                                                         *)
(* foo.py and foo.stpy share one cached file, which says of itself only    *)
(* the time and the size of the source it was made from.                   *)
(***************************************************************************)
EXTENDS Integers

CONSTANTS
  Importers,    \* processes that import the module
  NoSource,     \* "no such file", "no code"
  MaxEdits,     \* bound: how often a source is written
  Sizes,        \* lengths of a source
  SharedSeconds \* may two versions have been written in the same second?

ASSUME ImportAssumption ==
  /\ MaxEdits \in Nat
  /\ Sizes \subseteq Nat
  /\ NoSource \notin 1 .. MaxEdits
  /\ SharedSeconds \in BOOLEAN

Suffixes == {".py", ".stpy"}
Versions == 1 .. MaxEdits

VARIABLES
  edits,    \* versions written so far, to either file
  mtime, size, suffix,  \* of each version
  source,   \* the version each of the two files holds, or NoSource
  pyc,      \* the cached file: the mtime and size in its head and the version
            \* its code was compiled from, NoSource if there is no file
  pc,       \* each importer: "idle", "stat", "pyc", "read", "compile"
  path,     \* the suffix of the file it has found
  st,       \* the version of that file it has seen by path_stats
  source_bytes, \* the version it has read
  found     \* history: the code its last import returned, with the path and
            \* the version that file held when the import began

versionVars  == <<edits, mtime, size, suffix>>
importerVars == <<pc, path, st, source_bytes, found>>
vars == <<versionVars, source, pyc, importerVars>>

NoCode == [code |-> NoSource, path |-> ".py", since |-> NoSource]

Init ==
  /\ edits = 0
  /\ mtime = [v \in Versions |-> 0] /\ size = [v \in Versions |-> 0]
  /\ suffix = [v \in Versions |-> ".py"]
  /\ source = [x \in Suffixes |-> NoSource]
  /\ pyc = [mtime |-> 0, size |-> 0, code |-> NoSource]
  /\ pc = [i \in Importers |-> "idle"]
  /\ path = [i \in Importers |-> ".py"]
  /\ st = [i \in Importers |-> NoSource]
  /\ source_bytes = [i \in Importers |-> NoSource]
  /\ found = [i \in Importers |-> NoCode]

\* The second the last version was written in.
Now == IF edits = 0 THEN 0 ELSE mtime[edits]
-----------------------------------------------------------------------------
(* The programmer *)

\* A source is written, as a new version.
Edit(x, n) ==
  /\ edits < MaxEdits
  /\ edits' = edits + 1
  /\ \E t \in {Now, Now + 1} :
       /\ t = Now => SharedSeconds
       /\ mtime' = [mtime EXCEPT ![edits'] = t]
  /\ size' = [size EXCEPT ![edits'] = n]
  /\ suffix' = [suffix EXCEPT ![edits'] = x]
  /\ source' = [source EXCEPT ![x] = edits']
  /\ UNCHANGED <<pyc, importerVars>>

Remove(x) ==
  /\ source[x] # NoSource
  /\ source' = [source EXCEPT ![x] = NoSource]
  /\ UNCHANGED <<versionVars, pyc, importerVars>>

\* __pycache__ is emptied.
Clean ==
  /\ pyc.code # NoSource
  /\ pyc' = [mtime |-> 0, size |-> 0, code |-> NoSource]
  /\ UNCHANGED <<versionVars, source, importerVars>>
-----------------------------------------------------------------------------
(* An import *)

\* The import ends, with code or with an exception, and the process is free.
Finish(i, code) ==
  /\ found' = [found EXCEPT ![i] = [code |-> code, path |-> path[i], since |-> st[i]]]
  /\ pc' = [pc EXCEPT ![i] = "idle"]
  /\ st' = [st EXCEPT ![i] = NoSource]
  /\ source_bytes' = [source_bytes EXCEPT ![i] = NoSource]
  /\ path' = [path EXCEPT ![i] = ".py"]

Goto(i, label) == pc' = [pc EXCEPT ![i] = label]

\* FileFinder with the loader's suffixes, SOURCE_SUFFIXES before '.stpy'.
Find(i) ==
  /\ pc[i] = "idle"
  /\ \E x \in Suffixes :
       /\ source[x] # NoSource
       /\ x = ".stpy" => source[".py"] = NoSource
       /\ path' = [path EXCEPT ![i] = x]
  /\ Goto(i, "stat")
  /\ found' = [found EXCEPT ![i] = NoCode]
  /\ UNCHANGED <<versionVars, source, pyc, st, source_bytes>>

\* path_stats; the import fails if the file has gone.
Stat(i) ==
  /\ pc[i] = "stat"
  /\ IF source[path[i]] = NoSource
     THEN Finish(i, NoSource)
     ELSE /\ st' = [st EXCEPT ![i] = source[path[i]]]
          /\ Goto(i, "pyc")
          /\ UNCHANGED <<path, source_bytes, found>>
  /\ UNCHANGED <<versionVars, source, pyc>>

\* Mutant: the head of the cached file is not compared.
MatchesAny(v) == pyc.code # NoSource

\* _bytes_from_bytecode: the head of the cached file against the stat.
Matches(v) ==
  pyc.code # NoSource /\ pyc.mtime = mtime[v] /\ pyc.size = size[v]

\* The cached file is read and returned, or passed over.
ReadPyc(i) ==
  /\ pc[i] = "pyc"
  /\ IF Matches(st[i])
     THEN Finish(i, pyc.code)
     ELSE Goto(i, "read") /\ UNCHANGED <<path, st, source_bytes, found>>
  /\ UNCHANGED <<versionVars, source, pyc>>

\* get_data(source_path).
ReadSource(i) ==
  /\ pc[i] = "read"
  /\ IF source[path[i]] = NoSource
     THEN Finish(i, NoSource)
     ELSE /\ source_bytes' = [source_bytes EXCEPT ![i] = source[path[i]]]
          /\ Goto(i, "compile")
          /\ UNCHANGED <<path, st, found>>
  /\ UNCHANGED <<versionVars, source, pyc>>

\* source_to_code of StrigaFileLoader does not raise.
Compiles(i) == pc[i] = "compile" /\ path[i] # ".stpy"

\* A '.stpy' file raises NotImplementedError; another may be wrong Python.
CompileFails(i) ==
  /\ pc[i] = "compile"
  /\ Finish(i, NoSource)
  /\ UNCHANGED <<versionVars, source, pyc>>

\* Nothing is written: sys.dont_write_bytecode, or the file cannot be.
CompileOnly(i) ==
  /\ Compiles(i)
  /\ Finish(i, source_bytes[i])
  /\ UNCHANGED <<versionVars, source, pyc>>

\* Mutant: the time in the cached file is that of the source as it is now.
CompileAndStampNow(i) ==
  /\ Compiles(i)
  /\ source[path[i]] # NoSource
  /\ pyc' = [mtime |-> mtime[source[path[i]]], size |-> size[source_bytes[i]],
             code |-> source_bytes[i]]
  /\ Finish(i, source_bytes[i])
  /\ UNCHANGED <<versionVars, source>>

\* The code is compiled and the cached file replaced.
CompileAndWrite(i) ==
  /\ Compiles(i)
  /\ pyc' = [mtime |-> mtime[st[i]], size |-> size[source_bytes[i]],
             code |-> source_bytes[i]]
  /\ Finish(i, source_bytes[i])
  /\ UNCHANGED <<versionVars, source>>

Import(i) ==
  \/ Find(i) \/ Stat(i) \/ ReadPyc(i) \/ ReadSource(i)
  \/ CompileFails(i) \/ CompileOnly(i) \/ CompileAndWrite(i)

Programmer == Clean \/ \E x \in Suffixes : Remove(x) \/ \E n \in Sizes : Edit(x, n)

Next == Programmer \/ \E i \in Importers : Import(i)

Spec == Init /\ [][Next]_vars
-----------------------------------------------------------------------------
(* Properties *)

Imported == Versions \cup {NoSource}

TypeOK ==
  /\ edits \in 0 .. MaxEdits
  /\ mtime \in [Versions -> Nat] /\ size \in [Versions -> Nat]
  /\ suffix \in [Versions -> Suffixes]
  /\ source \in [Suffixes -> Imported]
  /\ pyc \in [mtime : Nat, size : Nat, code : Imported]
  /\ pc \in [Importers -> {"idle", "stat", "pyc", "read", "compile"}]
  /\ path \in [Importers -> Suffixes]
  /\ st \in [Importers -> Imported] /\ source_bytes \in [Importers -> Imported]
  /\ found \in [Importers -> [code : Imported, path : Suffixes, since : Imported]]

\* An import returns code of the file it has found, in a version that file
\* held during the import and not in an earlier one; and no '.stpy' file is
\* ever run as Python, neither from its own text nor from what the cached
\* file it shares with a '.py' file holds.
CodeIsFresh ==
  \A i \in Importers :
    found[i].code # NoSource =>
      /\ found[i].code >= found[i].since
      /\ suffix[found[i].code] = found[i].path
      /\ found[i].path # ".stpy"

\* Whatever version the cached file would be taken for, its code is of the
\* same file and not older.
CacheIsHonest ==
  \A v \in 1 .. edits :
    Matches(v) => pyc.code >= v /\ suffix[pyc.code] = suffix[v]
-----------------------------------------------------------------------------
(* With TypeOK an inductive invariant, if no two versions share a second. *)

\* Of two versions, the later has the later second.
ClockInv == \A v, w \in 1 .. edits : v < w => mtime[v] < mtime[w]

SourceInv ==
  \A x \in Suffixes :
    source[x] # NoSource => source[x] \in 1 .. edits /\ suffix[source[x]] = x

\* What an importer has seen and read are versions of its file, the stat the
\* earlier one, and the file holds none that is older than the stat.
Seen(i) ==
  /\ st[i] # NoSource <=> pc[i] \in {"pyc", "read", "compile"}
  /\ source_bytes[i] # NoSource <=> pc[i] = "compile"
  /\ st[i] # NoSource =>
       /\ st[i] \in 1 .. edits /\ suffix[st[i]] = path[i]
       /\ source[path[i]] # NoSource => st[i] <= source[path[i]]
  /\ source_bytes[i] # NoSource =>
       /\ source_bytes[i] \in 1 .. edits /\ suffix[source_bytes[i]] = path[i]
       /\ st[i] <= source_bytes[i]

SeenInv == \A i \in Importers : Seen(i)

\* The time in the cached file is that of a '.py' version that is no later
\* than the one its code is from.
CachedInv ==
  pyc.code # NoSource =>
    /\ pyc.code \in 1 .. edits /\ suffix[pyc.code] = ".py"
    /\ \E v \in 1 .. pyc.code : pyc.mtime = mtime[v] /\ suffix[v] = ".py"

FoundInv ==
  \A i \in Importers :
    found[i].code # NoSource =>
      /\ found[i].code \in 1 .. edits
      /\ found[i].since \in 1 .. found[i].code
      /\ suffix[found[i].code] = found[i].path /\ found[i].path = ".py"

IInv ==
  TypeOK /\ ClockInv /\ SourceInv /\ SeenInv /\ CachedInv /\ FoundInv
=============================================================================

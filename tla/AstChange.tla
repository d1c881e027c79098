----------------------------- MODULE AstChange ------------------------------
(***************************************************************************)
(* ast_change/main.py: an input is compiled without its blank lines, and   *)
(* the line numbers of the resulting syntax tree are translated back to    *)
(* the lines of the input, node by node, before the tree is executed.      *)
(*                                                                         *)
(* A line is known by its number in the input; what stands in it matters   *)
(* only for whether it is dropped.  compile() is outside: it may build any *)
(* tree whose nodes stand on lines of the text it is given.                *)
(***************************************************************************)
EXTENDS Integers, Sequences

CONSTANTS
  MaxLines,  \* bound: lines of an input
  Nodes      \* nodes of the tree

VARIABLES
  origdata,  \* the input: for each line, is it blank?
  class,     \* of each node: "stmt", "expr" or "other"
  phase,     \* "map" (the loop over the lines), "visit", "error" (KeyError)
  inlineno, outlineno,
  data,      \* the text to compile: the input's line behind each of its lines
  linemap,   \* _linemap
  parsed,    \* the line of the text on which each node stands
  lineno,    \* node.lineno
  visited

source == <<origdata, class>>
vars == <<source, phase, inlineno, outlineno, data, linemap, parsed, lineno,
          visited>>

\* get_data: any input.
Init ==
  /\ \E n \in 0 .. MaxLines : origdata \in [1 .. n -> BOOLEAN]
  /\ class \in [Nodes -> {"stmt", "expr", "other"}]
  /\ phase = "map"
  /\ inlineno = 1 /\ outlineno = 1
  /\ data = <<>>
  /\ linemap = [k \in {} |-> 0]
  /\ parsed = [n \in Nodes |-> 0] /\ lineno = [n \in Nodes |-> 0]
  /\ visited = {}

add_line_mapping(linenofrom, linenoto) ==
  linemap' = [k \in DOMAIN linemap \cup {linenofrom} |->
                IF k = linenofrom THEN linenoto ELSE linemap[k]]

SkipLine ==
  /\ phase = "map"
  /\ inlineno <= Len(origdata) /\ origdata[inlineno]
  /\ inlineno' = inlineno + 1
  /\ UNCHANGED <<source, phase, outlineno, data, linemap, parsed, lineno,
                 visited>>

TakeLine ==
  /\ phase = "map"
  /\ inlineno <= Len(origdata) /\ ~origdata[inlineno]
  /\ data' = Append(data, inlineno)
  /\ add_line_mapping(outlineno, inlineno)
  /\ outlineno' = outlineno + 1
  /\ inlineno' = inlineno + 1
  /\ UNCHANGED <<source, phase, parsed, lineno, visited>>

\* compile(data, ..., PyCF_ONLY_AST).
Parse ==
  /\ phase = "map"
  /\ inlineno > Len(origdata)
  /\ phase' = "visit"
  /\ parsed' \in [Nodes -> 1 .. Len(data)]
  /\ lineno' = parsed'
  /\ UNCHANGED <<source, inlineno, outlineno, data, linemap, visited>>

\* generic_visit.
Visit(n) ==
  /\ phase = "visit"
  /\ n \notin visited
  /\ visited' = visited \cup {n}
  /\ IF class[n] = "other"
     THEN UNCHANGED <<phase, lineno>>
     ELSE IF lineno[n] \in DOMAIN linemap
     THEN /\ lineno' = [lineno EXCEPT ![n] = linemap[lineno[n]]]
          /\ UNCHANGED phase
     ELSE phase' = "error" /\ UNCHANGED lineno
  /\ UNCHANGED <<source, inlineno, outlineno, data, linemap, parsed>>

Next == SkipLine \/ TakeLine \/ Parse \/ \E n \in Nodes : Visit(n)

Spec == Init /\ [][Next]_vars
-----------------------------------------------------------------------------
(* Properties *)

\* Every statement and expression that has been visited carries the line of
\* the input it was written on, which is not a blank one, and no node's line
\* is missing from the map.
LinesAreOriginal ==
  /\ phase # "error"
  /\ \A n \in visited :
       class[n] # "other" =>
         /\ parsed[n] \in 1 .. Len(data)
         /\ lineno[n] = data[parsed[n]]
         /\ lineno[n] \in 1 .. Len(origdata) /\ ~origdata[lineno[n]]

\* The map is the list of lines kept.
MapInv ==
  /\ outlineno = Len(data) + 1
  /\ DOMAIN linemap = 1 .. Len(data)
  /\ \A k \in 1 .. Len(data) :
       linemap[k] = data[k] /\ data[k] \in 1 .. Len(origdata) /\ ~origdata[data[k]]

TypeInv ==
  /\ origdata \in Seq(BOOLEAN)
  /\ phase \in {"map", "visit", "error"}
  /\ inlineno \in Nat \ {0} /\ outlineno \in Nat
  /\ data \in Seq(Nat)
  /\ parsed \in [Nodes -> Nat] /\ lineno \in [Nodes -> Nat]
  /\ visited \subseteq Nodes

NodeInv ==
  /\ phase = "map" => visited = {}
  /\ phase = "visit" =>
       \A n \in Nodes : /\ parsed[n] \in 1 .. Len(data)
                        /\ n \notin visited => lineno[n] = parsed[n]

IInv == TypeInv /\ MapInv /\ NodeInv /\ LinesAreOriginal
=============================================================================

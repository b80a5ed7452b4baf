----------------------------- MODULE SymbolTree -----------------------------
(***************************************************************************)
(* The symbol tree of the Analysis tab (ui/SymbolTree.tsx): folders of the *)
(* functions, imports, strings and sections of the run on screen, which    *)
(* fold and can be filtered.  The tree is made anew from each run; what is *)
(* open, and the filter, stay.                                             *)
(*                                                                         *)
(* A node is named by its kind and key; whether its label or address has   *)
(* the text of a filter in it is given.  A tree is its nodes in order, a   *)
(* folder before its children, each with the folders above it.             *)
(***************************************************************************)
EXTENDS Workspace, Filters

CONSTANTS
    Documents,  \* what is known of each run and of the sample: sequences of
                \* functions, imports, strings, sections; whether there is an
                \* image, and in it an index of callers
    Needles,    \* texts to filter by; "" is none
    Labelled    \* set of <<node, needle>>

Document ==
    [functions : Seq([va : Vas, score : Nat, stub : BOOLEAN]),
     imports : Seq([slot : Nat, library : Nat, callers : Nat]), indexed : BOOLEAN,
     strings : Seq([address : Nat, runtime : BOOLEAN]), sections : Seq(STRING), image : BOOLEAN]

(* The engine has one function, and one string, at an address.             *)
ASSUME TreeAssumption ==
    /\ DOMAIN Documents = Runs \cup {Sample} /\ "" \in Needles
    /\ \A s \in DOMAIN Documents :
          LET doc == Documents[s]
          IN  /\ doc \in Document
              /\ ~doc.image => doc.imports = <<>> /\ doc.sections = <<>>
              /\ \A i, j \in DOMAIN doc.functions :
                    doc.functions[i].va = doc.functions[j].va => i = j
              /\ \A i, j \in DOMAIN doc.strings :
                    doc.strings[i].address = doc.strings[j].address => i = j

VARIABLE tree   \* open, filter; ghost: touched, folded or filtered at least once

treeVars == <<tree>>

WorthReview == 20
Node(id, count, says) == [id |-> id, above |-> <<>>, count |-> count, says |-> says]
Under(node, nodes) ==
    <<node>> \o [i \in DOMAIN nodes |-> [nodes[i] EXCEPT !.above = <<node.id>> \o @]]
Folder(name, count, nodes) == Under(Node(<<"folder", name>>, count, ""), nodes)
Leaf(kind, key, says) == Node(<<kind, key>>, 0, says)

(***************************************************************************)
(* buildTree                                                               *)
(***************************************************************************)

FunctionFolder(doc) ==
    LET FnLeaves(s) == [i \in DOMAIN s |-> Leaf("fn", s[i].va, "")]
        all == ToSet(doc.functions)
        real == Keep(doc.functions, {f \in all : ~f.stub})
        thunks == Keep(doc.functions, {f \in all : f.stub})
        interesting == Keep(real, {f \in all : f.score >= WorthReview})
        rest == Keep(real, {f \in all : f.score < WorthReview})
    IN  Folder("functions", Len(real),
            Folder("fn-interesting", Len(interesting),
                   FnLeaves(Descending(interesting, [i \in DOMAIN interesting |-> interesting[i].score])))
            \o Folder("fn-rest", Len(rest), FnLeaves(rest))
            \o Folder("fn-thunks", Len(thunks), FnLeaves(thunks)))

(* No index, and no callers, are different facts.                          *)
Callers(doc, import) ==
    IF ~doc.indexed THEN "callers unknown"
    ELSE IF import.callers > 0 THEN "callers" ELSE "no callers found"

ImportFolder(doc) ==
    LET all == ToSet(doc.imports)
        Of(library) == Keep(doc.imports, {i \in all : i.library = library})
        libraries == ListOf({i.library : i \in all})
        Library(library) ==
            Under(Node(<<"library", library>>, Len(Of(library)), ""),
                 [i \in DOMAIN Of(library) |->
                     Leaf("imp", Of(library)[i].slot, Callers(doc, Of(library)[i]))])
    IN  Folder("imports", Len(doc.imports),
               FlattenSeq([i \in DOMAIN libraries |-> Library(libraries[i])]))

(* Strings of the runtime, if any, have a folder of their own.             *)
StringFolder(doc) ==
    LET StrLeaves(s) == [i \in DOMAIN s |-> Leaf("str", s[i].address, "")]
        all == ToSet(doc.strings)
        own == Keep(doc.strings, {s \in all : ~s.runtime})
        runtime == Keep(doc.strings, {s \in all : s.runtime})
    IN  Folder("strings", Len(doc.strings),
            IF runtime = <<>> THEN StrLeaves(own)
            ELSE Folder("str-own", Len(own), StrLeaves(own))
                 \o Folder("str-runtime", Len(runtime), StrLeaves(runtime)))

SectionFolder(doc) ==
    Folder("sections", Len(doc.sections),
           [i \in DOMAIN doc.sections |-> Leaf("sect", doc.sections[i], "")])

BuildTree(doc) ==
    FunctionFolder(doc)
    \o (IF doc.imports # <<>> THEN ImportFolder(doc) ELSE <<>>)
    \o (IF doc.strings # <<>> THEN StringFolder(doc) ELSE <<>>)
    \o (IF doc.image THEN SectionFolder(doc) ELSE <<>>)
Trees == [s \in DOMAIN Documents |-> BuildTree(Documents[s])]
Folders == UNION {UNION {ToSet(n.above) : n \in ToSet(Trees[s])} : s \in DOMAIN Trees}

(***************************************************************************)
(* What is drawn                                                           *)
(***************************************************************************)

Ids(nodes) == {n.id : n \in ToSet(nodes)}
Flatten(nodes, open) == At(nodes, {i \in DOMAIN nodes : ToSet(nodes[i].above) \subseteq open})

(* The nodes whose label has the text, and those above them.               *)
Matches(id, needle) == <<id, needle>> \in Labelled
Prune(nodes, needle) ==
    LET matching == {n \in ToSet(nodes) : Matches(n.id, needle)}
        kept == {n.id : n \in matching} \cup UNION {ToSet(n.above) : n \in matching}
    IN  At(nodes, {i \in DOMAIN nodes : nodes[i].id \in kept})

(* While a filter is on, what still has a match is open.                   *)
(* Mutant: what was open is.                                               *)
Expanded_AsLeft(pruned) == tree.open
Expanded(pruned) == Ids(pruned)

TreeRows ==
    LET nodes == Trees[app.data]
    IN  IF tree.filter = "" THEN Flatten(nodes, tree.open)
        ELSE LET pruned == Prune(nodes, tree.filter) IN Flatten(pruned, Expanded(pruned))
Expandable == UNION {ToSet(n.above) : n \in ToSet(Trees[app.data])}
                \cap Ids(TreeRows)

(***************************************************************************)
(* Actions                                                                 *)
(***************************************************************************)
AtTree == Loaded /\ app.view = "analysis" /\ Spend("browse") /\ UNCHANGED <<client, appVars>>

(* A click on a folder.  While a filter is on it shows nothing.  A click   *)
(* on a function is OpenFunction.                                          *)
Toggle(id) ==
    /\ AtTree /\ id \in Expandable
    /\ tree' = [tree EXCEPT !.open = IF id \in @ THEN @ \ {id} ELSE @ \cup {id}, !.touched = TRUE]

TypeFilter(needle) ==
    /\ AtTree
    /\ needle # tree.filter
    /\ tree' = [tree EXCEPT !.filter = needle, !.touched = TRUE]

TreeInit ==
    tree = [open |-> {<<"folder", n>> : n \in {"functions", "fn-interesting", "str-own"}},
            filter |-> "", touched |-> FALSE]

(***************************************************************************)
(* Properties                                                              *)
(***************************************************************************)
Symbols(doc) ==
    {<<"fn", f.va>> : f \in ToSet(doc.functions)} \cup {<<"imp", i.slot>> : i \in ToSet(doc.imports)}
    \cup {<<"str", t.address>> : t \in ToSet(doc.strings)}
    \cup {<<"sect", name>> : name \in ToSet(doc.sections)}

RowsRight(symbols, rows, t) ==
    LET Below(row) == {r \in ToSet(rows) : row.id \in ToSet(r.above)}
        shown == Ids(rows) \cap symbols
    IN  /\ Cardinality(Ids(rows)) = Len(rows)
        /\ \A i \in DOMAIN rows :
              IF i = 1 THEN rows[i].above = <<>>
              ELSE IsPrefix(rows[i].above, Append(rows[i - 1].above, rows[i - 1].id))
        /\ IF t.filter # ""
           THEN /\ shown = {x \in symbols : Matches(x, t.filter)}
                /\ \A row \in ToSet(rows) : Matches(row.id, t.filter) \/ Below(row) # {}
           ELSE \A row \in ToSet(rows) :
                  \A below \in {Below(row)} :
                   /\ below # {} => row.id \in t.open
                   /\ below # {} /\ row.id # <<"folder", "functions">>
                      /\ (\A r \in below : r.id \in shown \/ r.id \in t.open)
                      => row.count = Cardinality({r \in below : r.id \in shown})

(* Whatever was folded and whichever run came in between, each symbol has  *)
(* at most one row, below open folders only; a filter shows the symbols    *)
(* that match, all of them and no others, and folders only for their own   *)
(* name or for something below; and a folder opened to the end has as many *)
(* symbols as its count says (that of Functions leaves out the stubs that  *)
(* are listed in it).  Looked at while the tree is on screen, once it was  *)
(* touched.                                                                *)
TreeExact ==
    tree.touched /\ app.view = "analysis" =>
        RowsRight(Symbols(Documents[app.data]), TreeRows, tree)
=============================================================================

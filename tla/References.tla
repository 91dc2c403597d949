----------------------------- MODULE References -----------------------------
(***************************************************************************)
(* What a commit page compares: its results with one of several references *)
(* (src/webapp/src/selection.js).  The URL is the only state: each         *)
(* operation reads the selection from it and navigates to another URL.     *)
(*                                                                         *)
(* Names and colors are mostly implicit: the URL has only those that could *)
(* not be told from the others, and every reading computes them again.     *)
(* Which results they are (a commit, a batch...) is left out.              *)
(***************************************************************************)
EXTENDS Integers, FiniteSets, SequencesExt

CONSTANTS
    UserNames,          \* what users call results
    side_color_count,
    MaxReferences,      \* bound: the references of a comparison
    MaxCopies           \* bound: the copies of copies

ReferencesAssumption ==
    side_color_count \in Nat \ {0} /\ MaxReferences \in Nat \ {0} /\ MaxCopies \in Nat

VARIABLES
    url,    \* the top results, the reference shown, the others, and its place among them
    was     \* history: where each side was before, 0 being the top and -1 nowhere
vars == <<url, was>>

(* Names: "ref 3" is <<"ref", <<3>>>>, "ref" <<"ref", <<1>>>>, and         *)
(* "ISP copy 2" <<"ISP", <<2>>>>.                                          *)
NoLabel == <<"", <<>>>>
ref_name(number) == <<"ref", <<number>>>>
is_default_name(label) == label = NoLabel \/ label[1] = "ref"
Given == {NoLabel} \cup {<<name, <<>>>> : name \in UserNames}
Gray == -1
Colors == 0..(side_color_count - 1)

TypeOK ==
    LET Side == [label : ({"", "ref"} \cup UserNames) \X Seq(Nat), color : Colors \cup {Gray}]
    IN  /\ url.top \in Side /\ url.ref \in Side /\ url.others \in Seq(Side)
        /\ url.ref_index \in 0..Len(url.others)
        /\ was \in Seq(-1..MaxReferences)

-----------------------------------------------------------------------------
(* Those without a color, or with another's, take the first free one, the  *)
(* top results first.                                                      *)
Smallest(k, S) == CHOOSE n \in S : Cardinality({m \in S : m < n}) = k - 1

Colorings == UNION {[1..n -> Colors \cup {Gray}] : n \in 1..(MaxReferences + 1)}

side_colors == [colors \in Colorings |->
    LET Has(i) == colors[i] # Gray /\ \A j \in 1..(i - 1) : colors[j] # colors[i]
        free == Colors \ {colors[i] : i \in DOMAIN colors}
        Waiting(i) == Cardinality({j \in 1..i : ~Has(j)})
    IN  [i \in DOMAIN colors |-> IF Has(i) THEN colors[i]
                                 ELSE IF Waiting(i) <= Cardinality(free) THEN Smallest(Waiting(i), free)
                                 ELSE Gray]]

(* The colors only where they are needed to get them back.                 *)
needed_colors == [colors \in Colorings |->
    LET Without(kept, i) == [j \in DOMAIN kept |-> IF j = i THEN Gray ELSE kept[j]]
        Drop(kept, i) == IF side_colors[Without(kept, i)] = side_colors[colors] THEN Without(kept, i) ELSE kept
        after[i \in 0..Len(colors)] == IF i = 0 THEN side_colors[colors] ELSE Drop(after[i - 1], i)
    IN  after[Len(colors)]]

(* Without a label, the first is "ref", the others the next free "ref N".  *)
reference_names(refs) ==
    LET used == {refs[i].label : i \in DOMAIN refs}
        free == {n \in 1..(2 * Len(refs)) : ref_name(n) \notin used}
        Unnamed(i) == Cardinality({j \in 1..i : refs[j].label = NoLabel})
    IN  [i \in DOMAIN refs |-> IF refs[i].label # NoLabel THEN refs[i].label
                               ELSE ref_name(Smallest(Unnamed(i), free))]

(* The next "ref N", and the next free "<name> copy".                      *)
next_ref_name(names) ==
    LET free == {n \in 2..(Len(names) + 2) : \A i \in DOMAIN names : names[i] # ref_name(n)}
    IN  ref_name(Smallest(1, free))

copy_name(names, i) ==
    LET Copy(n) == <<names[i][1], Append(names[i][2], n)>>
        free == {n \in 1..(Len(names) + 1) : \A j \in DOMAIN names : names[j] # Copy(n)}
    IN  IF is_default_name(names[i]) THEN next_ref_name(names) ELSE Copy(Smallest(1, free))

-----------------------------------------------------------------------------
(* selection_from_url(): the reference shown, put back in its place.       *)
references == InsertAt(url.others, url.ref_index + 1, url.ref)
shown == url.ref_index + 1

ColorsOf(top, refs) == [i \in 1..(Len(refs) + 1) |-> IF i = 1 THEN top.color ELSE refs[i - 1].color]
Colored(refs, colors) == [i \in DOMAIN refs |-> [refs[i] EXCEPT !.color = colors[i + 1]]]

ColorsShown == side_colors[ColorsOf(url.top, references)]
NamesShown == reference_names(references)

with_colorsBug(refs) == refs            \* they are left to be told again
with_colors(refs) == Colored(refs, ColorsShown)

with_namesBug(refs) == refs             \* they are left to be told again

(* The references with the names we gave them written down, except "ref".  *)
with_names(refs) ==
    LET names == reference_names(refs) IN
    [i \in DOMAIN refs |->
       [refs[i] EXCEPT !.label = IF @ = NoLabel /\ names[i] = ref_name(1) THEN @ ELSE names[i]]]

(* references_changes(), then the URL it gives: the one at i is shown.     *)
Show(top, refs, i, places) ==
    LET needed == needed_colors[ColorsOf(top, refs)]
        kept == Colored(refs, needed)
    IN  /\ url' = [top |-> [top EXCEPT !.color = needed[1]], ref |-> kept[i],
                   others |-> RemoveAt(kept, i), ref_index |-> i - 1]
        /\ was' = places

Stay(refs) == [i \in 1..(Len(refs) + 1) |-> i - 1]

show_reference ==
    \E i \in DOMAIN references : Show(url.top, references, i, Stay(references))

(* One we have already is shown, as above.                                 *)
add_reference ==
    LET refs == with_colors(references) IN
    \E label \in Given :
        LET name == IF label = NoLabel THEN next_ref_name(NamesShown) ELSE label IN
        /\ Len(refs) < MaxReferences
        /\ Show(url.top, Append(refs, [label |-> name, color |-> Gray]), Len(refs) + 1, Append(Stay(refs), -1))

remove_reference ==
    LET named == with_colors(with_names(references)) IN
    \E i \in DOMAIN references :
        /\ Len(references) > 1
        /\ LET next == IF i < shown \/ shown = Len(named) THEN shown - 1 ELSE shown
           IN  Show(url.top, RemoveAt(named, i), next, RemoveAt(Stay(named), i + 1))

Moved(s, from, to) == InsertAt(RemoveAt(s, from), to, s[from])

move_reference ==
    LET named == with_colors(with_names(references)) IN
    \E from \in DOMAIN references, to \in DOMAIN references :
        /\ from # to
        /\ LET places == Moved(Stay(named), from + 1, to + 1)
               there == CHOOSE i \in DOMAIN named : places[i + 1] = shown
           IN  Show(url.top, Moved(named, from, to), there, places)

duplicate_reference ==
    LET named == with_colors(with_names(references)) IN
    \E i \in DOMAIN references :
        /\ Len(references) < MaxReferences /\ Len(named[i].label[2]) <= MaxCopies
        /\ LET copy == [label |-> copy_name(NamesShown, i), color |-> Gray]
           IN  Show(url.top, InsertAt(named, i + 1, copy), i + 1, InsertAt(Stay(named), i + 2, -1))

rename_reference ==
    \E i \in DOMAIN references, label \in Given :
        Show(url.top, [references EXCEPT ![i].label = label], shown, Stay(references))

(* Names users gave follow their results, "new" and "ref N" stay in place. *)
swapped_labels(label_new, refs, i) ==
    LET label_ref == refs[i].label IN
    [label_new |-> IF is_default_name(label_ref) THEN NoLabel ELSE label_ref,
     label_ref |-> IF label_new # NoLabel THEN label_new
                   ELSE IF is_default_name(label_ref) THEN label_ref
                   ELSE next_ref_name(reference_names(RemoveAt(refs, i)))]

(* Colors follow their results.                                            *)
Swap(refs, i) ==
    LET labels == swapped_labels(url.top.label, with_names(references), i)
        top == [label |-> labels.label_new, color |-> ColorsShown[i + 1]]
        place == [label |-> labels.label_ref, color |-> ColorsShown[1]]
    IN  Show(top, [with_colors(refs) EXCEPT ![i] = place], i,
             [Stay(refs) EXCEPT ![1] = i, ![i + 1] = 0])

swap_with_top == \E i \in DOMAIN references : Swap(with_names(references), i)

switch_new_and_reference == Swap(references, shown)

(* A link to a comparison, with or without a name and a color.             *)
Init ==
    /\ \E label \in Given, color \in Colors \cup {Gray} :
         url = [top |-> [label |-> NoLabel, color |-> Gray], ref |-> [label |-> label, color |-> color],
                others |-> <<>>, ref_index |-> 0]
    /\ was = Stay(references)

Next ==
    \/ show_reference \/ add_reference \/ remove_reference \/ move_reference
    \/ duplicate_reference \/ rename_reference
    \/ swap_with_top \/ switch_new_and_reference

Spec == Init /\ [][Next]_vars

-----------------------------------------------------------------------------
Keep(old, new, sides) ==
    \A i \in sides : was'[i] # -1 => old[was'[i] + 1] \in {new[i], Gray}

Removed == Len(was') < Len(was)
Freed(colors) == {colors[i] : i \in DOMAIN colors \ {was'[j] + 1 : j \in DOMAIN was'}}

(* "Each keeps its own color wherever it goes": no operation changes the   *)
(* color of references, nor of the top results, but to give a gray one a   *)
(* color that was freed, and two of them never share one (needed_colors,   *)
(* side_colors).  When a reference is removed, though, the top results may *)
(* take the color it freed.                                                *)
ColorsMove ==
    LET old == ColorsShown
        new == ColorsShown'
    IN  /\ Keep(old, new, IF Removed THEN 2..Len(was') ELSE 1..Len(was'))
        /\ Removed => new[1] \in {old[1]} \cup Freed(old)
        /\ \A i, j \in DOMAIN new : i # j /\ new[i] # Gray => new[i] # new[j]
ColorsFollow == [][ColorsMove]_vars

(* A reference that is neither new, nor swapped with the top results, is   *)
(* called as before.                                                       *)
OthersKeepNames ==
    LET old == NamesShown
        new == NamesShown'
    IN  \A i \in DOMAIN new : was'[i + 1] > 0 => new[i] = old[was'[i + 1]]

(* "Moving or removing references doesn't rename the others", nor does     *)
(* showing, adding or copying one, nor swapping one with the top results   *)
(* (with_names, reference_names, next_ref_name).  Renaming one may, if it  *)
(* takes or leaves the name "ref", and so may switch_new_and_reference.    *)
NamesMove ==
    \/ show_reference \/ add_reference \/ remove_reference \/ move_reference
    \/ duplicate_reference \/ swap_with_top
    => OthersKeepNames
NamesStay == [][NamesMove]_vars

(* What selection.js says of two operations, and is not so.  A color freed *)
(* "goes to the first gray reference, else to the next one added" (:301):  *)
(* not to the top results, which keep theirs (:190).                       *)
TopKeepsItsColor == [][remove_reference => ColorsShown'[1] = ColorsShown[1]]_vars

(* When the new results are swapped with the reference shown, ""new" and   *)
(* "ref N" stay in place" (:253): the other references keep their names.   *)
SwitchRenamesNoOther == [][switch_new_and_reference => OthersKeepNames]_vars
=============================================================================

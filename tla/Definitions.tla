---------------------------- MODULE Definitions ----------------------------
(***************************************************************************)
(* What the compiling words promise, whatever saves and restores they do:  *)
(* definitions nest like brackets.  Each open definition has a text of its *)
(* own; what is compiled goes to the innermost one; closing it makes a     *)
(* word of exactly that text and goes on with the definition around it.    *)
(* The text of a word that has been made never changes.                    *)
(***************************************************************************)
EXTENDS Naturals, Sequences, SequencesExt

VARIABLES
    open,       \* the open definitions, the innermost last: [id, name, text]
    texts,      \* the text of each definition that has been made, by its id
    count       \* how many definitions have been begun

vars == <<open, texts, count>>

Init == open = <<>> /\ texts = <<>> /\ count = 0

\* A definition is begun inside the innermost one.
Open ==
    /\ count' = count + 1
    /\ Len(open') = Len(open) + 1
    /\ open' = Append(open, [id |-> count', name |-> Last(open').name, text |-> <<>>])
    /\ UNCHANGED texts

\* One item more in the text of the innermost definition.
Write ==
    /\ open # <<>>
    /\ Len(open') = Len(open)
    /\ Front(open') = Front(open)
    /\ Last(open').text # <<>>
    /\ open'[Len(open)] = [Last(open) EXCEPT
                             !.text = Append(@, Last(Last(open').text))]
    /\ UNCHANGED <<texts, count>>

\* The innermost definition ends and becomes a word.
Close ==
    /\ open # <<>>
    /\ texts' = [d \in DOMAIN texts \union {Last(open).id} |->
                    IF d = Last(open).id THEN Last(open).text ELSE texts[d]]
    /\ open' = Front(open)
    /\ UNCHANGED count

\* A word that a defining word such as VALUE makes at once.
Make ==
    /\ count' = count + 1
    /\ DOMAIN texts' = DOMAIN texts \union {count'}
    /\ \A d \in DOMAIN texts : texts'[d] = texts[d]
    /\ UNCHANGED open

Next == Open \/ Write \/ Close \/ Make

Spec == Init /\ [][Next]_vars
=============================================================================

---------------------------- MODULE DiagramStore ----------------------------
(***************************************************************************)
(* What the files of a diagram promise (src/src/adiar/internal/io): a      *)
(* diagram in memory has a content that lasts as long as somebody uses it, *)
(* and a content that was given a name outlives every user and can be      *)
(* loaded again under that name, unchanged.                                *)
(*                                                                         *)
(* `content` maps each diagram in memory to what its files hold, `name`    *)
(* the persistent ones to the prefix of their paths, and `kept` each       *)
(* prefix in use to the content stored under it.                           *)
(***************************************************************************)
EXTENDS Naturals, Sequences, Functions

CONSTANTS Objects, PathPrefixes, Parts, Elements

VARIABLES content, name, kept

vars == <<content, name, kept>>

Empty == [i \in Parts |-> <<>>]

With(f, x, y) == [z \in DOMAIN f \cup {x} |-> IF z \in DOMAIN f THEN f[z] ELSE y]

(* What sorting a file may leave: its elements, rearranged in ascending    *)
(* order.                                                                  *)
Sortings(s) ==
    {t \in {[i \in DOMAIN s |-> s[p[i]]] : p \in Bijection(DOMAIN s, DOMAIN s)} :
        \A i, j \in DOMAIN t : i < j => t[i] <= t[j]}

Init == content = <<>> /\ name = <<>> /\ kept = <<>>

(* A new diagram is empty or a copy of another one *)
Create(o) ==
    /\ \E c \in {Empty} \cup {content[q] : q \in DOMAIN content} :
           content' = With(content, o, c)
    /\ UNCHANGED <<name, kept>>

(* A kept content is loaded again *)
Load(o, p) ==
    /\ content' = With(content, o, kept[p])
    /\ name' = With(name, o, p)
    /\ UNCHANGED kept

(* A file of a diagram grows at its end, or is sorted *)
Successors(s) == {Append(s, e) : e \in Elements} \cup Sortings(s)

Change(o, i) ==
    /\ \E s \in Successors(content[o][i]) : content' = [content EXCEPT ![o][i] = s]
    /\ UNCHANGED <<name, kept>>

(* A diagram gets a name nobody has *)
Persist(o, p) ==
    /\ name' = With(name, o, p)
    /\ kept' = With(kept, p, content[o])
    /\ UNCHANGED content

(* Nobody uses a diagram any longer *)
Forget(o) ==
    /\ content' = Restrict(content, DOMAIN content \ {o})
    /\ name' = Restrict(name, DOMAIN name \ {o})
    /\ UNCHANGED kept

(* Only a diagram without a name changes, and it gets one once.  What      *)
(* changes nothing, as most of what a user of the files does, stutters.    *)
Next ==
    /\ vars' /= vars
    /\ \/ \E o \in Objects \ DOMAIN content : Create(o) \/ \E p \in DOMAIN kept : Load(o, p)
       \/ \E o \in DOMAIN content \ DOMAIN name :
              \/ \E p \in PathPrefixes \ DOMAIN kept : Persist(o, p)
              \/ \E i \in Parts : Change(o, i)
       \/ \E o \in DOMAIN content : Forget(o)

Spec == Init /\ [][Next]_vars
=============================================================================

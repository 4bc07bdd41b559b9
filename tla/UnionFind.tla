------------------------------ MODULE UnionFind ------------------------------
(***************************************************************************)
(* What the union-find forests of TTK promise to the tasks that share      *)
(* them: elements live in sets, every set has one representative, a union  *)
(* gives the elements of two sets a common one, and a find answers with    *)
(* the representative its argument has at one instant of the call.         *)
(* The promise names neither parents, ranks nor path compression.          *)
(***************************************************************************)
CONSTANTS UF, Task, Null

VARIABLES comp,     \* comp[u]: the representative of the set u is in
          asked,    \* asked[t]: argument of the last find of t, or Null
          answer    \* answer[t]: its answer, Null while there is none

uvars == <<comp, asked, answer>>

UInit == /\ comp = [u \in UF |-> u]
         /\ asked = [t \in Task |-> Null]
         /\ answer = [t \in Task |-> Null]

(* A task starts a find of x; with x = Null it turns to something else.    *)
Ask(t, x) == /\ asked' = [asked EXCEPT ![t] = x]
             /\ answer' = [answer EXCEPT ![t] = Null]
             /\ UNCHANGED comp

(* The single instant at which a find takes effect.                        *)
Resolve(t) == /\ asked[t] # Null
              /\ answer[t] = Null
              /\ answer' = [answer EXCEPT ![t] = comp[asked[t]]]
              /\ UNCHANGED <<comp, asked>>

(* The set represented by s joins the one represented by r.                *)
Unite(r, s) == /\ r # s
               /\ comp[r] = r
               /\ comp[s] = s
               /\ comp' = [u \in UF |-> IF comp[u] = s THEN r ELSE comp[u]]
               /\ UNCHANGED <<asked, answer>>

UNext == \/ \E t \in Task, x \in UF \cup {Null} : Ask(t, x)
         \/ \E t \in Task : Resolve(t)
         \/ \E r, s \in UF : Unite(r, s)

USpec == UInit /\ [][UNext]_uvars
===============================================================================

------------------------------ MODULE HotUpdateMC ------------------------------
(* Instances of HotUpdate for TLC. *)
EXTENDS HotUpdate

CONSTANTS main, x, y

\* The entry requires x, and y through x or by itself; x and y may require each
\* other.  Either the entry accepts x, or x accepts y and the entry nothing.
Apps ==
    {[requires |-> r, accepts |-> a, self |-> s] :
        r \in {{<<main, x>>, <<main, y>>, <<x, y>>}, {<<main, x>>, <<x, y>>, <<y, x>>}},
        a \in {{<<main, x>>}, {<<x, y>>}}, s \in {{}, {x}, {y}}}
================================================================================

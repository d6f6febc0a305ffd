------------------------------ MODULE MCOpenKitC ------------------------------
(***************************************************************************)
(* Either one instance with every trust mode and loggers and trust         *)
(* managers of the application; or one instance with two sessions, or with *)
(* one and handles of what is in it; or two instances from one             *)
(* configuration, with a logger of the application or without one.         *)
(***************************************************************************)
EXTENDS OpenKitC

CONSTANTS k1, k2, s1, s2, c1, l1, m1, b1, b2, b3, b4, h1, h2, h3

SmallBounds == {{c1, k1, l1, m1, b1, b2} \cup TRUST_MODE,
                {c1, k1, b1, b2, s1, s2, h1, h2},
                {c1, k1, b1, b2, s1, h1, h2, h3},
                {c1, k1, k2, l1, b1, b2, b3},
                {c1, k1, k2, b1, b2, b3, b4}}

ReuseBounds == {{c1, k1, k2, b1, b2, b3, b4}}
================================================================================

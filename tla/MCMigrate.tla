----------------------------- MODULE MCMigrate -----------------------------
(***************************************************************************)
(* Migrate for TLC: the version 2 ledgers its runs look at.                *)
(***************************************************************************)
EXTENDS Migrate, TLC

CONSTANTS k0, k1, v1, v2, n1, o1

MCObjectOf == [b \in {v1, v2, n1} |-> o1]
NoKeys == [f \in KeyFiles |-> NoFile]
Keyed == [NoKeys EXCEPT !["identity"] = k0, !["private"] = k0, !["trusted"] = {k0}]

Plain == [index |-> <<v1, v2>>, files |-> {v1, v2}, mismatched |-> {}, undated |-> {},
          keys |-> NoKeys, registered |-> {v1, v2}, objects |-> {o1}]
WithKeys == [Plain EXCEPT !.index = <<v1>>, !.files = {v1}, !.keys = Keyed, !.registered = NoFile, !.objects = {}]
Old == [Plain EXCEPT !.undated = {v1}, !.objects = {}]
Damaged == [Plain EXCEPT !.files = {v2}, !.mismatched = {v2}, !.registered = NoFile]

MCSources == {Plain, WithKeys, Old, Damaged}
PlainOnly == {Plain}

=============================================================================

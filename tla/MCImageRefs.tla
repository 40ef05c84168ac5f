---------------------------- MODULE MCImageRefs ----------------------------
(* Instances of ImageRefs for TLC: an official image in its spellings, on    *)
(* Docker Hub and elsewhere, pinned, and a text that is no reference; and    *)
(* an application under the same name on two registries.                     *)
EXTENDS ImageRefs

CONSTANTS docker, ghcr, library, nginx, user, app, latest, v1

Ref(path, tag) == [path |-> path, tag |-> tag, pinned |-> FALSE]

Spellings ==
    {Ref(<<nginx>>, None), Ref(<<library, nginx>>, latest), Ref(<<docker, library, nginx>>, None),
     Ref(<<ghcr, library, nginx>>, latest), Ref(<<nginx>>, v1),
     Ref(<<user, app>>, v1), Ref(<<ghcr, user, app>>, v1),
     [Ref(<<nginx>>, None) EXCEPT !.pinned = TRUE], Ref(<< >>, None)}
=============================================================================

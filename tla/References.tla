----------------------------- MODULE References -----------------------------
(***************************************************************************)
(* Image references, the scopes of a policy or of a sigstore configuration *)
(* that cover them, and the rules that compare a signed reference with the *)
(* one that is pulled.                                                     *)
(*                                                                         *)
(* A name (registry and repository) is a sequence of tokens, among them    *)
(* "/", "." and ":"; a reference has a name and a tag, a digest or both.   *)
(***************************************************************************)
EXTENDS Integers, Sequences, SequencesExt

CONSTANT None

\* The text of a reference: what a scope that is meant for it alone says.
Whole(ref) ==
    ref.name \o (IF ref.tag = None THEN <<>> ELSE <<":", ref.tag>>)
             \o (IF ref.digest = None THEN <<>> ELSE <<"@", ref.digest>>)

\* Reference::try_from: a text without tag and digest is one for "latest".
Parse(ref) ==
    IF ref.tag = None /\ ref.digest = None THEN [ref EXCEPT !.tag = "latest"] ELSE ref

\* The positions of a token, from left to right.
Cuts(s, token) ==
    LET cuts[n \in 0..Len(s)] ==
            IF n = 0 THEN <<>>
            ELSE IF s[n] = token THEN Append(cuts[n - 1], n) ELSE cuts[n - 1]
    IN cuts[Len(s)]

\* rsplit_once, again and again: the parents of a name, longest first.
Parents(name) ==
    LET cuts == Reverse(Cuts(name, "/"))
    IN [k \in 1..Len(cuts) |-> SubSeq(name, 1, cuts[k] - 1)]

\* The last parent is the registry; its port does not count for a wildcard.
Host(name) ==
    LET registry == Last(<<name>> \o Parents(name))
        colons == Cuts(registry, ":")
    IN IF colons = <<>> THEN registry ELSE SubSeq(registry, 1, Last(colons) - 1)

\* split_once, again and again: the domains of a host, longest first.
Wildcards(host) ==
    LET dots == Cuts(host, ".")
    IN [k \in 1..Len(dots) |-> <<"*", ".">> \o SubSeq(host, dots[k] + 1, Len(host))]

\* get_image_namespaces.
NamespacesHostFirst(ref) ==
    Reverse(<<ref.name>> \o Parents(ref.name)) \o Wildcards(Host(ref.name))
Namespaces(ref) ==
    <<ref.name>> \o Parents(ref.name) \o Wildcards(Host(ref.name))

\* The first of some scopes that a map has; None if it has none.
FirstIn(scopes, map) ==
    LET found == {i \in 1..Len(scopes) : scopes[i] \in DOMAIN map}
    IN IF found = {} THEN None ELSE scopes[Min(found)]

-----------------------------------------------------------------------------
(* PolicyReqMatchType::matches_docker_reference.                            *)

SameRepository(a, b) == a.name = b.name

\* The remapped name of a reference: the prefix is replaced where it stands.
Remapped(ref, prefix, signed) ==
    IF IsPrefix(prefix, ref.name)
      THEN [ref EXCEPT !.name = signed \o SubSeq(ref.name, Len(prefix) + 1, Len(ref.name))]
      ELSE ref

\* A tag has to be the signed one; a digest is content with the repository.
DigestOrExact(origin, signed) ==
    /\ origin.tag # None => origin = signed
    /\ origin.digest # None => SameRepository(origin, Parse(signed))

Matches(rule, origin, signed) ==
    CASE rule.type = "matchExact" -> origin.digest = None /\ origin = signed
      [] rule.type = "matchRepoDigestOrExact" -> DigestOrExact(origin, signed)
      [] rule.type = "matchRepository" -> SameRepository(origin, Parse(signed))
      [] rule.type = "exactReference" -> signed = rule.ref
      [] rule.type = "exactRepository" -> Parse(signed).name = rule.name
      [] rule.type = "remapIdentity" ->
           DigestOrExact(Remapped(origin, rule.prefix, rule.signed), signed)
=============================================================================

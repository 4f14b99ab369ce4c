------------------------------ MODULE Tension ------------------------------
(***************************************************************************)
(* What trouble a fact is in (conflict.go), and what a person's ruling on  *)
(* a citation (attest.go) takes away from it.  The counts and names a      *)
(* tension is worded with are left out.                                    *)
(***************************************************************************)
EXTENDS Evaluation

\* Citations: the live relations of a source to what it attests.
Citations(g, id, at) ==
    {e \in g.incident : /\ e.type = "attests" /\ e.dst = id
                        /\ g.nodes[e.src].kind = "source" /\ EdgeLive(g, e, at)}

\* Supports: a ruling subtracts a citation when it is the last on it, says
\* `unsupported`, and a person made it, which AppendAttestation has seen to.
Supports(rulings, fact, source) ==
    <<fact, source>> \in DOMAIN rulings => rulings[<<fact, source>>] # "unsupported"

\* checkAttestation: a citation nobody has ruled out, at any date.
Attested(g, rulings, id) ==
    \E e \in g.incident :
        /\ e.type = "attests" /\ e.dst = id /\ g.nodes[e.src].kind = "source"
        /\ Supports(rulings, id, e.src)

WindowsOverlap(n, o) ==
    /\ ~ (n.until # NoDate /\ o.from # NoDate /\ n.until <= o.from)
    /\ ~ (o.until # NoDate /\ n.from # NoDate /\ o.until <= n.from)

SupportedClaim(g, id, at) ==
    /\ id \in DOMAIN g.nodes
    /\ g.nodes[id].kind # "source"
    /\ g.nodes[id].status \in {"asserted", "proposed"}
    /\ Citations(g, id, at) # {}

Contests(g, id, other, at) ==
    SupportedClaim(g, other, at) /\ WindowsOverlap(g.nodes[id], g.nodes[other])

Other(e, id) == IF e.src = id THEN e.dst ELSE e.src

\* Mutant of Opponents: the relation is read from the end it points at.
MutantOneEnd(g, id, at) ==
    {o \in {Other(e, id) : e \in {e \in g.incident :
                /\ e.type = "contradicts" /\ e.dst = id
                /\ EdgeLive(g, e, at)}} \ {id} :
        Contests(g, id, o, at)}

\* The claims a fact stands in live contradiction with.  A contradiction is read
\* from both ends; one that undercuts only from the end it defeats.
Opponents(g, id, at) ==
    {o \in {Other(e, id) : e \in {e \in g.incident :
                /\ e.type = "contradicts" /\ id \in {e.src, e.dst}
                /\ ~ (e.one_way /\ e.src = id)
                /\ EdgeLive(g, e, at)}} \ {id} :
        Contests(g, id, o, at)}

\* conflict: evidence both ways.  A source may contradict a fact too.
Conflict(g, id, at) ==
    /\ Citations(g, id, at) # {}
    /\ \/ Opponents(g, id, at) # {}
       \/ \E e \in g.incident :
             /\ e.type = "contradicts" /\ e.dst = id /\ EdgeLive(g, e, at)
             /\ g.nodes[e.src].kind = "source"

Rank(g, e) == g.nodes[e.src].class

\* The ranked citations of id that have a speaker: the weakest is impeached.
Spoken(g, id, at) ==
    {e \in Citations(g, id, at) : g.nodes[e.src].speaker # None /\ Rank(g, e) # Unranked}

\* impeachment: the opponents with a source that outranks the weakest speaker's.
Impeachers(g, id, at) ==
    {o \in Opponents(g, id, at) :
        \E oe \in Citations(g, o, at), weakest \in Spoken(g, id, at) :
            /\ \A e \in Spoken(g, id, at) : Rank(g, weakest) <= Rank(g, e)
            /\ Rank(g, oe) > Rank(g, weakest)}

\* tension.
Tension(g, id, at) ==
    IF g.nodes[id].kind = "source" \/ g.nodes[id].status \in {"withdrawn", "false"} THEN "none"
    ELSE IF g.nodes[id].underdetermined THEN "underdetermined"
    ELSE IF ~ Conflict(g, id, at) THEN "none"
    ELSE IF Impeachers(g, id, at) # {} THEN "impeached"
    ELSE "disputed"
=============================================================================

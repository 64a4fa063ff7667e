---------------------------- MODULE DiamondGraph ----------------------------
(***************************************************************************)
(* The Diamond Model graph of recent ledger entries (cti/diamond.py), as a *)
(* function of the rows of the ledger: [id, host, entry] with the entries  *)
(* of Entries.  An adversary uses capabilities, the techniques, and        *)
(* infrastructure, the artifacts that are an address, a domain, a hash or  *)
(* a URL, against victims, the hosts.  The labels of vertices are left     *)
(* out, as is the time.                                                    *)
(***************************************************************************)
EXTENDS Entries

InfraPrefixes == {"ip", "domain", "hash", "url"}

Vertex(kind, label) == [kind |-> kind, label |-> label]

Victim(row) == Vertex("victim", row.host)

(* One at most.                                                            *)
Infrastructure(row) ==
    IF row.entry.artifactKey[1] \in InfraPrefixes
    THEN <<Vertex("infrastructure", row.entry.artifactKey)>> ELSE <<>>

Capabilities(row) ==
    [i \in DOMAIN row.entry.mitre |-> Vertex("capability", row.entry.mitre[i])]

(* The edges of one row: adversary to victim through each capability and   *)
(* through the infrastructure, and from the one to the other.              *)
RowEdges(adversary, row) ==
    LET Edge(src, dst) == [src |-> src, dst |-> dst, id |-> row.id]
        Through(v) == <<Edge(adversary, v), Edge(v, Victim(row))>>
        caps == Capabilities(row)
    IN  FlattenSeq([i \in DOMAIN caps |-> Through(caps[i])]) \o
        FlattenSeq([n \in DOMAIN Infrastructure(row) |->
                        Through(Infrastructure(row)[n]) \o
                        [i \in DOMAIN caps |-> Edge(caps[i], Infrastructure(row)[n])]])

(* build_diamond_graph                                                     *)
BuildDiamondGraph(rows, label) ==
    LET adversary == Vertex("adversary", label)
        nodes == {adversary} \cup
                     UNION {{Victim(rows[i])} \cup Range(Infrastructure(rows[i])) \cup
                            Range(Capabilities(rows[i])) : i \in DOMAIN rows}
        edges == FlattenSeq([i \in DOMAIN rows |-> RowEdges(adversary, rows[i])])
        Number(kind) == Cardinality({v \in nodes : v.kind = kind})
    IN  [nodes |-> nodes, edges |-> edges,
         counts |-> [adversary |-> Number("adversary"), capability |-> Number("capability"),
                     infrastructure |-> Number("infrastructure"), victim |-> Number("victim"),
                     edges |-> Len(edges)]]

(* refresh_diamond_graph: of the latest rows, the latest first.            *)
RefreshDiamondGraph(ledger, nRecent) ==
    LET from == IF nRecent < Len(ledger) THEN Len(ledger) - nRecent + 1 ELSE 1
    IN  BuildDiamondGraph(Reverse(SubSeq(ledger, from, Len(ledger))), "unattributed")
=============================================================================

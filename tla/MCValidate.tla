----------------------------- MODULE MCValidate -----------------------------
(* Validate on two nodes, of one farm or of two.                            *)
EXTENDS Validate

Size(mru, sru) == [mru |-> mru, sru |-> sru]

\* Idle, half used, and one that uses more than it has.
MCInfos ==
  {[farm |-> f, total |-> Size(2, 1), used |-> u, ipv4 |-> b, domain |-> ~ b] :
     f \in Farm, u \in {Size(0, 0), Size(1, 1), Size(3, 1)}, b \in {TRUE}}
  \cup {[farm |-> f, total |-> Size(2, 1), used |-> Size(1, 2), ipv4 |-> FALSE, domain |-> TRUE] :
          f \in Farm}

Is(mru, sru, ips, type) == [mru |-> mru, sru |-> sru, ips |-> ips, type |-> type]

MCDeployments ==
  {Is(1, 0, 1, "plain"), Is(2, 1, 0, "fqdn"), Is(0, 1, 2, "name"), Is(1, 2, 0, "plain")}
=============================================================================

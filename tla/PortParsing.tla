---------------------------- MODULE PortParsing ----------------------------
(***************************************************************************)
(* parsers.py: from the text of a session to the observed ports.  The text *)
(* is a sequence of sections [cmd, text], the text a sequence of lines.  A *)
(* line is a record of what the parsers may read of it, whatever table it  *)
(* was printed for, since a slow device prints into the section of a later *)
(* command:                                                                *)
(*   kind       the word of the dialogue it is, "text" for any other line  *)
(*   first, second, words   its first words and how many there are         *)
(*   interface  its first word looks like the name of an interface         *)
(*   state, mbps   the first word that is a status, with three more after  *)
(*              it (Absent otherwise), and the speed that the last is      *)
(*   errors     the largest number at the places of the counters that are  *)
(*              judged, where words count as zero                          *)
(*   mac, port  an address and an interface name that follows it           *)
(*   ip         an address two words before a mac                          *)
(* Interface names are short and addresses canonical already.              *)
(***************************************************************************)
EXTENDS Integers, Sequences, SequencesExt

CONSTANT PromptWord   \* "switch#show", what a prompt and the echo after it begin with

NoSpeed == -1         \* speed_mbps: None
Absent  == ""         \* what is not known, or not in a line

\* command_sections: a header seen again goes on with its section.
SectionText(sections, cmd) ==
  FlattenSeq([i \in DOMAIN sections |-> IF sections[i].cmd = cmd THEN sections[i].text ELSE <<>>])

\* The rows that the parser of each table takes from a text; what begins with
\* "Port" is the heading of a table.
StatusRows(text)   == {line \in ToSet(text) : line.first # "Port" /\ line.state # Absent}
CounterRows(text)  == {line \in ToSet(text) : line.first # "Port" /\ line.words >= 8}
MacRows(text)      == {line \in ToSet(text) : line.mac # Absent /\ line.port # Absent}
ArpRows(text)      == {line \in ToSet(text) : line.ip # Absent}
NeighborRows(text) == {line \in ToSet(text) : line.words >= 3 /\ line.interface}

\* The ports that rows name, and the row of a port that wins: a dictionary
\* keeps the last.
PortsIn(rows)          == {row.first : row \in rows}
LastRow(text, rows, p) == text[Max({i \in DOMAIN text : text[i] \in rows /\ text[i].first = p})]

\* An echo goes on with the line of the prompt before it.
FirstWord(text, i) ==
  IF i > 1 /\ text[i].kind = "echo" /\ text[i - 1].kind = "prompt" THEN PromptWord ELSE text[i].first

\* parse_interface_descriptions leaves out its heading and the echo of its own
\* command, and takes every other line of three words.
DescribedPorts(text) ==
  LET rows == {i \in DOMAIN text :
                 /\ text[i].words >= 3
                 /\ FirstWord(text, i) # "Interface"
                 /\ ~(FirstWord(text, i) = "show" /\ text[i].second = "interfaces description")}
  IN  {FirstWord(text, i) : i \in rows}

MacsAt(text, p) == {line.mac : line \in {row \in MacRows(text) : row.port = p}}

StatusTable == <<"show", "interfaces status">>

\* parse_collection_ports: the ports of five tables, joined by name, and the
\* addresses joined by MAC.  ARP rows alone make no port.
ParsePorts(sections) ==
  LET statuses  == SectionText(sections, StatusTable)
      figures   == SectionText(sections, <<"show", "interfaces counters errors">>)
      described == SectionText(sections, <<"show", "interfaces description">>)
      macs      == SectionText(sections, <<"show", "mac address-table">>)
      arp       == SectionText(sections, <<"show", "ip arp">>)
      met       == SectionText(sections, <<"show", "lldp neighbors">>)
      status    == StatusRows(statuses)
      counters  == CounterRows(figures)
      lldp      == NeighborRows(met)
      ports     == PortsIn(status) \cup DescribedPorts(described) \cup PortsIn(counters)
                     \cup PortsIn(lldp) \cup {row.port : row \in MacRows(macs)}
  IN  [p \in ports |->
        [state     |-> IF p \in PortsIn(status) THEN LastRow(statuses, status, p).state ELSE Absent,
         mbps      |-> IF p \in PortsIn(status) THEN LastRow(statuses, status, p).mbps ELSE NoSpeed,
         errors    |-> IF p \in PortsIn(counters) THEN LastRow(figures, counters, p).errors ELSE 0,
         macs      |-> MacsAt(macs, p),
         ips       |-> {row.ip : row \in {r \in ArpRows(arp) : r.mac \in MacsAt(macs, p)}},
         neighbor  |-> IF p \in PortsIn(lldp) THEN LastRow(met, lldp, p).second ELSE Absent]]
=============================================================================

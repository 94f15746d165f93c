----------------------------- MODULE BenchHost ------------------------------
(***************************************************************************)
(* What llmbench writes down of the machine behind a server                *)
(* (discovery/host.py), which machine the GPU readings of its cells come   *)
(* from (telemetry/gpu.py), and the aliases of hosts                       *)
(* (security/sanitize.py).                                                 *)
(*                                                                         *)
(* A machine is [name, answers, tells, smi, rows]: whether commands can be *)
(* run on it ("yes", "no" or "hangs"), what its commands tell, whether it  *)
(* has nvidia-smi, and what that says to the inspection's query, which has *)
(* no space before --format: rows of columns, or {} when it is refused.    *)
(* What is known of a machine is abstracted to whose it is.                *)
(***************************************************************************)
EXTENDS Lists

\* _remote: the machine the commands of the inspection run on, `ssh' being what
\* --ssh-gpu names.
Reached(client, ssh) == IF ssh = {} THEN client ELSE CHOOSE m \in ssh : TRUE

Says(m, fact) == IF m.answers = "yes" /\ fact \in m.tells THEN {m.name} ELSE {}

\* The pattern of the CPU's model loses its quotes on the way through ssh, so
\* that grep fails; the sizes of memory are read where llmbench runs, and so are
\* the kernel and the architecture when the machine does not tell them.  (The
\* pattern of the NUMA nodes is not in what numactl tells.)
OSInfo(client, ssh) ==
    LET m == Reached(client, ssh)
        Or(told) == IF told = {} THEN {client.name} ELSE told
    IN [distribution |-> Says(m, "release"), uptime |-> Says(m, "uptime"),
        cores |-> Says(m, "cores"), cpu_model |-> IF ssh = {} THEN Says(m, "cpu") ELSE {},
        kernel |-> Or(Says(m, "kernel")), arch |-> Or(Says(m, "arch")),
        memory |-> {client.name}]

\* Where GpuInfo takes its fields from.  The columns asked for are name, driver,
\* total, free and used memory, temperature, the highest SM and memory clocks,
\* power limit, current SM and memory clocks, ECC, link generation and width,
\* their maxima, and MIG: the clocks, the limit and ECC are each taken one or
\* two columns off.
Places ==
    [name |-> 1, memory |-> 3, sm_clock_max |-> 8, mem_clock_max |-> 9, power_limit |-> 10,
     ecc |-> 11, link_gen |-> 13, link_width |-> 14]

GpuInfo(row) == [f \in DOMAIN Places |-> row[Places[f]]]

\* Without an answer, a card that lspci shows is one GPU of which nothing is
\* known but whose it is.
Gpus(m) ==
    IF m.answers = "yes" /\ m.smi /\ m.rows # {}
    THEN LET rows == CHOOSE r \in m.rows : TRUE
             full == Picked(rows, {i \in DOMAIN rows : Len(rows[i]) >= 14})
         IN [i \in DOMAIN full |-> GpuInfo(full[i])]
    ELSE [i \in 1 .. (IF Says(m, "card") = {} THEN 0 ELSE 1) |-> [name |-> [of |-> m.name, column |-> 0]]]
-----------------------------------------------------------------------------
(* security/sanitize.py *)

NewSanitizer == [seq |-> 0, alias |-> <<>>]

\* A name, and what a command prints: it ends with a newline.
Text(name) == [name |-> name, newline |-> FALSE]
Printed(name) == [name |-> name, newline |-> TRUE]

Aliased(alias, host, n) ==
    [x \in DOMAIN alias \cup {host} |-> IF x = host THEN n ELSE alias[x]]

\* The n-th new name becomes gpu-host-n.
AliasForHost(s, host) ==
    IF host = Text("localhost") \/ host \in DOMAIN s.alias THEN s
    ELSE [seq |-> s.seq + 1, alias |-> Aliased(s.alias, host, s.seq + 1)]

\* A name that is pinned counts for nothing.
RegisterHost(s, host, n) == [s EXCEPT !.alias = Aliased(@, host, n)]
-----------------------------------------------------------------------------
\* inspect: what the machine tells of its name gets an alias, and then the
\* name gpu-host-01 itself, whose alias is kept.
Inspected(client, ssh) ==
    LET m == Reached(client, ssh)
        hostname == IF Says(m, "hostname") = {} THEN Text("unknown") ELSE Printed(m.name)
        first == AliasForHost(NewSanitizer, hostname)
        second == AliasForHost(first, Text("gpu-host-01"))
    IN [os |-> OSInfo(client, ssh), gpus |-> Gpus(m), multi_gpu_warning |-> Len(Gpus(m)) > 1,
        hostname_alias |-> second.alias[Text("gpu-host-01")],
        collected_via |-> IF ssh = {} THEN "local" ELSE m.name]

\* cmd_run's own aliases, of the GPU's host and of the server's address.
Names(ssh, address) ==
    AliasForHost(IF ssh = {} THEN NewSanitizer
                 ELSE RegisterHost(NewSanitizer, Text((CHOOSE m \in ssh : TRUE).name), 1),
                 Text(address))
-----------------------------------------------------------------------------
(* telemetry/gpu.py *)

\* Mutant of Mode: a GPU beside the client is preferred.
ModeAuto(ssh) == "auto"

Mode(ssh) == IF ssh = {} THEN "auto" ELSE "ssh"

\* _detect: whether a machine can be reached is asked, what it answers is not
\* looked at.
Sampler(client, ssh) ==
    IF Mode(ssh) = "auto" /\ client.smi THEN [over_ssh |-> FALSE, available |-> TRUE]
    ELSE [over_ssh |-> TRUE, available |-> \E m \in ssh : m.answers # "hangs"]

Source(sampler) ==
    CASE ~sampler.over_ssh -> "nvidia-smi"
      [] sampler.over_ssh /\ sampler.available -> "nvidia-smi-ssh"
      [] OTHER -> "unavailable"

\* The machines readings can be of.
ReadFrom(sampler, client, ssh) ==
    {m.name : m \in {x \in (IF sampler.over_ssh THEN ssh ELSE {client}) :
                       sampler.available /\ x.answers = "yes" /\ x.smi}}
=============================================================================

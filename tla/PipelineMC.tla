----------------------------- MODULE PipelineMC -----------------------------
(* A small tenant, user directory and catalogue for Pipeline. *)
EXTENDS Pipeline

CONSTANTS d1, d2, d3, d4, u1, u2, u3

(* d4 belongs to a person; nothing maps its operating system to a class. *)
Owners == (d1 :> "company") @@ (d2 :> "company") @@ (d3 :> "company") @@ (d4 :> "personal")

Users == (d1 :> u1) @@ (d2 :> u2) @@ (d3 :> u3) @@ (d4 :> NoOne)

(* d2 and d3 have the same placeholder; d3 has no name either. *)
Good == [text |-> "C02XG", listed |-> FALSE, length |-> 5, uniform |-> FALSE]
Zeros == [text |-> "00000", listed |-> FALSE, length |-> 5, uniform |-> TRUE]
Blank == [text |-> "", listed |-> FALSE, length |-> 0, uniform |-> FALSE]
Serials == (d1 :> Good) @@ (d2 :> Zeros) @@ (d3 :> Zeros) @@ (d4 :> Blank)
Names == (d1 :> "host1") @@ (d2 :> "host2") @@ (d3 :> "") @@ (d4 :> "host4")

(* One model under no and under a known manufacturer, one under another. *)
Makers == (d1 :> NoName) @@ (d2 :> "LENOVO") @@ (d3 :> "Acme^") @@ (d4 :> NoName)
Models == (d1 :> "T14") @@ (d2 :> "T14") @@ (d3 :> "X1") @@ (d4 :> NoName)
Aliases == ("LENOVO" :> "Lenovo") @@ ("Lenovo" :> "Lenovo") @@ ("Acme^" :> "Acme^")
           @@ ("T14" :> "T14") @@ ("X1" :> "X1")
Tables == [n \in Name |-> IF n \in {"T14", "X1"} THEN "cmdb_model" ELSE "core_company"]

(* T14 may be there twice, and then fills the answer that X1 is looked for in. *)
Catalogued ==
  {[sys_id |-> "a", name |-> "Lenovo"], [sys_id |-> "b", name |-> "T14"],
   [sys_id |-> "c", name |-> "T14"], [sys_id |-> "d", name |-> "X1"]}

(* john@a and john@b share a local part; zoe shares nothing. *)
Values ==
  [employee_number |-> (u1 :> <<"1^">>) @@ (u2 :> <<NoValue>>) @@ (u3 :> <<"e3">>),
   user_name |-> (u1 :> <<"john@a", "john">>) @@ (u2 :> <<"john@b", "john">>)
                 @@ (u3 :> <<"zoe@a", "zoe">>)]

UserSeq == <<u1, u2, u3>>
KeyOrder == <<"employee_number", "user_name">>

SysUser(id, active, number, name) ==
  [sys_id |-> id, active |-> active, employee_number |-> number, user_name |-> name]

SysUsers ==
  {SysUser("a", TRUE, "e3", "john"), SysUser("b", TRUE, "e3", "john@b"),
   SysUser("c", TRUE, "e3", "zoe@a"), SysUser("d", TRUE, NoValue, "zoe"),
   SysUser("e", FALSE, "e3", "zoe")}

(* The details and the memory of every device; users and records stay out. *)
Detailed ==
  [ownership |-> "company", serverFilter |-> TRUE, limit |-> 0, hardware |-> TRUE,
   ramAttribute |-> TRUE, assignUser |-> FALSE, enrichUsers |-> FALSE, createMakers |-> FALSE,
   createModels |-> FALSE, batch |-> 2, dryRun |-> FALSE]

(* Users by way of Graph. *)
Assigning ==
  [Detailed EXCEPT !.hardware = FALSE, !.ramAttribute = FALSE, !.assignUser = TRUE,
                   !.enrichUsers = TRUE]

(* Records are created; the list is filtered by the client alone. *)
Cataloguing ==
  [Detailed EXCEPT !.serverFilter = FALSE, !.hardware = FALSE, !.ramAttribute = FALSE,
                   !.createMakers = TRUE, !.createModels = TRUE]

(* A limited dry run over devices of any owner, with what the devices say of users. *)
Trial ==
  [Cataloguing EXCEPT !.ownership = "any", !.limit = 2, !.assignUser = TRUE, !.batch = 1,
                      !.dryRun = TRUE]

Mixed == {Detailed, Assigning, Cataloguing, Trial}
AssigningOnly == {Assigning}
Keys == Device \cup User
=============================================================================

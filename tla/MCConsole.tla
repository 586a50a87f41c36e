---- MODULE MCConsole ----
EXTENDS Console

(* Two providers: one whose second region and whose volume types differ in *)
(* what they allow, one with a single choice of each.                      *)
MCCatalogue ==
  [aws |-> [regions |-> <<[code |-> "us", datacenters |-> <<"us-1", "us-2">>],
                          [code |-> "eu", datacenters |-> <<"eu-1">>]>>,
            small |-> <<"t3">>,
            volumes |-> <<[type |-> "io1", min |-> 120, default |-> FALSE],
                          [type |-> "gp3", min |-> 1, default |-> TRUE]>>],
   hetzner |-> [regions |-> <<[code |-> "de", datacenters |-> <<"fsn">>]>>,
                small |-> <<"cx">>,
                volumes |-> <<[type |-> "hc", min |-> 10, default |-> TRUE]>>]]
MCExtensions == [cube |-> {"17", "18"}, vector |-> {"17"}]
MCVersions == <<"17","18">>
MCEnvironments == <<"test","prod">>

OnOwn == {"form", "submit", "rest", "local"}
Cloudy == {"form", "submit", "rest"}
Tour(parts, secrets) == [parts |-> parts, secrets |-> secrets]
MCTables == {
  Tour({"clusters", "overview", "others"}, <<>>), Tour({"clusters", "removal", "others"}, <<>>),
  Tour({"clusters", "removal", "header", "project"}, <<>>),
  Tour({"clusters", "overview", "failures", "session"}, <<>>),
  Tour({"clusters", "projects", "header"}, <<>>),
  Tour({"clusters", "environments"}, <<>>),
  Tour({"settings", "header"}, <<>>), Tour({"settings", "yaml"}, <<>>),
  Tour({"settings", "form"}, <<>>),
  Tour({"settings", "failures"}, <<>>),
  Tour({"secrets", "header", "project"}, <<"aws">>),
  Tour(Cloudy \cup {"secrets"}, <<"aws">>), Tour(OnOwn \cup {"settings"}, <<>>),
  Tour(Cloudy \cup {"clusters", "removal"}, <<"aws">>)}
MCTours == {
  Tour(Cloudy \cup {"aws", "hetzner", "region", "instance", "storage", "amount"}, <<"aws", "hetzner">>),
  Tour(OnOwn \cup {"servers"}, <<>>), Tour(OnOwn \cup {"dcs"}, <<>>), Tour(OnOwn \cup {"balancers"}, <<>>),
  Tour(OnOwn \cup {"auth"}, <<"ssh_key", "password">>),
  Tour({"form", "local", "auth", "login"}, <<>>), Tour(OnOwn \cup {"auth"}, <<>>), Tour(OnOwn \cup {"login"}, <<>>),
  Tour(OnOwn \cup {"auth", "lag"}, <<"ssh_key", "password">>),
  Tour(OnOwn \cup {"auth"}, <<"ssh_key">>),Tour(OnOwn \cup {"auth","busy"}, <<"ssh_key", "password">>),
  Tour(Cloudy \cup {"databases", "extensions"}, <<"aws">>),
  Tour(Cloudy \cup {"version", "extensions"}, <<"aws">>),
  Tour(OnOwn \cup {"version"}, <<>>),
  Tour({"form","databases", "pools","local"}, <<"aws">>),
  Tour(OnOwn \cup {"hetzner", "backups"}, <<"hetzner">>),
  Tour({"form", "rest","submit", "parameters", "yaml"}, <<"aws">>), Tour(OnOwn \cup {"yaml"}, <<"aws">>),
  Tour(Cloudy \cup {"yaml"}, <<"aws", "aws">>),  Tour(Cloudy \cup {"yaml", "lag"}, <<"aws", "aws">>),
  Tour(Cloudy \cup {"aws", "hetzner", "lag", "leave"}, <<"aws", "aws">>),
  Tour(Cloudy \cup {"texts", "busy"}, <<>>),
  Tour(OnOwn \cup {"texts"}, <<>>),
  Tour(Cloudy \cup {"standby", "amount"}, <<"aws">>)}
  \cup MCTables
MCProjects == <<"p1", "p2">>
====

------------------------------- MODULE Config -------------------------------
(***************************************************************************)
(* config.Load and ProvideConfig (internal/config/config.go): the layers   *)
(* of the configuration, the defaults an entry takes from elsewhere in it, *)
(* the validation, and the -mode flag.  What it accepts is what the other  *)
(* modules assume of their constants.                                      *)
(*                                                                         *)
(* A setting is a path and a value.  Of a value only what Load tells apart *)
(* is kept: the sign of a duration or a number, the kind of a URL or proxy.*)
(* An expected_status of 1 stands for one from 100 to 599, -1 and 2 for one*)
(* outside.                                                                *)
(***************************************************************************)
EXTENDS Integers

CONSTANTS
  Targets,      \* the entries of [[targets]], by what they are here for
  Alerters,     \* the entries of [alerters]
  Garbage       \* a value that does not decode

VARIABLES
  file,     \* the settings of the TOML file
  env,      \* the settings of the JOGHD_ environment variables
  flag,     \* the -mode flag, "" if absent
  stage,    \* how far Load has got
  cfg       \* the Config in hand

vars == <<file, env, flag, stage, cfg>>

-----------------------------------------------------------------------------
(***************************************************************************)
(* The settings and the values they may be given.                          *)
(***************************************************************************)
Signs == {-1, 0, 1}
Proxies == {"", "direct", "http", "socks5", "bad"}
Modes == {"oneshot", "continuous"}

TargetFields ==
  {"name", "url", "interval", "timeout", "expected_status", "proxy", "cert_expiry_warning"}
AlerterFields == {"type", "enabled", "credentials", "timeout", "proxy"}

EntrySettings ==
  ({"targets"} \X Targets \X TargetFields) \cup ({"alerters"} \X Alerters \X AlerterFields)

SectionSettings ==
  ({"app"} \X {"mode", "log_level", "concurrency", "reminder_multiplier"})
    \cup ({"http"} \X {"timeout", "proxy", "cert_expiry_warning"})
    \cup ({"retry"} \X {"max_attempts", "initial_wait", "max_wait", "multiplier"})
    \cup ({"metrics"} \X {"listen"})

Settings == SectionSettings \cup EntrySettings

Field(k) == IF k \in EntrySettings THEN k[3] ELSE k[2]

\* Numbers and durations; the rest are strings and Booleans, which always
\* decode.
Numeric(k) ==
  Field(k) \in {"concurrency", "reminder_multiplier", "timeout", "interval",
                "cert_expiry_warning", "max_attempts", "initial_wait", "max_wait",
                "expected_status"}

Choices(k) ==
  CASE Numeric(k) -> Signs \cup {2, Garbage}
    [] Field(k) = "mode" -> Modes \cup {"other"}
    [] Field(k) = "log_level" -> {"info", "other"}
    [] Field(k) = "proxy" -> Proxies
    [] Field(k) = "multiplier" -> {"below one", "one", "above one", "infinite", "nan"}
    [] Field(k) = "listen" -> {"", "host:port", "bad"}
    [] Field(k) = "name" -> {"", "api", "db"}
    [] Field(k) = "url" -> {"", "https", "tcp", "tcp without port", "bad"}
    [] Field(k) = "type" -> {"", "telegram", "mattermost", "other"}
    [] Field(k) \in {"enabled", "credentials"} -> BOOLEAN

Zero(k) ==
  CASE Numeric(k) -> 0
    [] Field(k) \in {"enabled", "credentials"} -> FALSE
    [] OTHER -> ""

\* Default(): every other setting starts at its zero value.
Defaults ==
  [k \in SectionSettings |->
     CASE k = <<"app", "mode">> -> "oneshot"
       [] k = <<"app", "log_level">> -> "info"
       [] k = <<"retry", "max_wait">> -> 2
       [] k = <<"retry", "multiplier">> -> "above one"
       [] Field(k) \in {"concurrency", "reminder_multiplier", "timeout",
                        "max_attempts", "initial_wait"} -> 1
       [] OTHER -> Zero(k)]

-----------------------------------------------------------------------------
\* koanf merges a layer over what was loaded before it.
Over(upper, lower) ==
  [k \in DOMAIN upper \cup DOMAIN lower |->
     IF k \in DOMAIN upper THEN upper[k] ELSE lower[k]]

\* Load: the defaults, the file over them, the environment over both.
Layered ==
  LET layers == Over(env, Over(file, Defaults))
  IN  [k \in Settings |-> IF k \in DOMAIN layers THEN layers[k] ELSE Zero(k)]

(***************************************************************************)
(* applyDefaults: what an entry's setting falls back on when it is zero.   *)
(***************************************************************************)
Fallback(c, k) ==
  CASE k \in EntrySettings /\ Field(k) = "proxy" -> c[<<"http", "proxy">>]
    [] k[1] = "targets" /\ Field(k) = "timeout" -> c[<<"http", "timeout">>]
    [] k[1] = "targets" /\ Field(k) = "cert_expiry_warning" ->
         c[<<"http", "cert_expiry_warning">>]
    [] k[1] = "alerters" /\ Field(k) = "timeout" -> 1
    [] Field(k) \in {"interval", "expected_status"} -> 1
    [] OTHER -> c[k]

\* Mutant: a window that is not positive is inherited too.
ApplyDefaults_Negative(c) ==
  [k \in Settings |->
     IF c[k] = Zero(k) \/ (Field(k) = "cert_expiry_warning" /\ c[k] < 0)
     THEN Fallback(c, k) ELSE c[k]]

\* Mutant: only the alerters inherit http.proxy.
ApplyDefaults_NoTargetProxy(c) ==
  [k \in Settings |->
     IF c[k] = Zero(k) /\ ~(k[1] = "targets" /\ Field(k) = "proxy")
     THEN Fallback(c, k) ELSE c[k]]

ApplyDefaults(c) ==
  [k \in Settings |-> IF c[k] = Zero(k) THEN Fallback(c, k) ELSE c[k]]

-----------------------------------------------------------------------------
(***************************************************************************)
(* validate.  A comparison with a NaN is false.                            *)
(***************************************************************************)
ValidApp(c) ==
  /\ c[<<"app", "mode">>] \in Modes
  /\ c[<<"app", "log_level">>] # "other"
  /\ c[<<"app", "concurrency">>] >= 1
  /\ c[<<"app", "reminder_multiplier">>] >= 0

ValidHTTP(c) ==
  /\ c[<<"http", "timeout">>] > 0
  /\ c[<<"http", "proxy">>] # "bad"
  /\ c[<<"http", "cert_expiry_warning">>] >= 0

ValidRetry(c) ==
  /\ c[<<"retry", "max_attempts">>] >= 1
  /\ c[<<"retry", "initial_wait">>] > 0
  /\ c[<<"retry", "max_wait">>] >= c[<<"retry", "initial_wait">>]
  /\ c[<<"retry", "multiplier">>] # "below one"

Alerter(c, a, field) == c[<<"alerters", a, field>>]

\* Mutant: an alerter without a timeout is let through.
ValidAlerter_NoTimeout(c, a) ==
  Alerter(c, a, "enabled") =>
    /\ Alerter(c, a, "type") \in {"telegram", "mattermost"}
    /\ Alerter(c, a, "credentials")
    /\ Alerter(c, a, "proxy") # "bad"

\* A disabled alerter may be incomplete.
ValidAlerter(c, a) ==
  Alerter(c, a, "enabled") =>
    /\ Alerter(c, a, "type") \in {"telegram", "mattermost"}
    /\ Alerter(c, a, "credentials")
    /\ Alerter(c, a, "timeout") > 0
    /\ Alerter(c, a, "proxy") # "bad"

Target(c, t, field) == c[<<"targets", t, field>>]
IsTCP(c, t) == Target(c, t, "url") = "tcp"

ValidTarget(c, t) ==
  /\ Target(c, t, "name") # ""
  /\ Target(c, t, "url") \in {"https", "tcp"}
  /\ Target(c, t, "interval") > 0
  /\ Target(c, t, "timeout") > 0
  /\ ~IsTCP(c, t) => Target(c, t, "expected_status") = 1
  /\ Target(c, t, "proxy") # "bad"
  /\ IsTCP(c, t) => Target(c, t, "proxy") \in {"", "direct", "socks5"}

UniqueNames(c) ==
  \A t, u \in Targets : Target(c, t, "name") = Target(c, u, "name") => t = u

Valid(c) ==
  /\ ValidApp(c)
  /\ ValidHTTP(c)
  /\ ValidRetry(c)
  /\ c[<<"metrics", "listen">>] # "bad"
  /\ \A a \in Alerters : ValidAlerter(c, a)
  /\ Targets # {}
  /\ \A t \in Targets : ValidTarget(c, t)
  /\ UniqueNames(c)

-----------------------------------------------------------------------------
(***************************************************************************)
(* The smallest document that is worth anything: a URL and a name for each *)
(* target, a type and credentials for each alerter.  Up to two settings of *)
(* it are changed or added, in the file or in the environment, which only  *)
(* reaches the sections and the alerters.                                  *)
(***************************************************************************)
Minimal ==
  [k \in ({"targets"} \X Targets \X {"name", "url"})
            \cup ({"alerters"} \X Alerters \X {"type", "enabled", "credentials"}) |->
     CASE Field(k) = "name" -> k[2]
       [] Field(k) = "url" -> IF k[2] = "db" THEN "tcp" ELSE "https"
       [] Field(k) = "type" -> "telegram"
       [] OTHER -> TRUE]

(***************************************************************************)
(* A target goes by a name, and Garbage is no value that is ever meant.    *)
(***************************************************************************)
ASSUME ConfigAssumption ==
  /\ "" \notin Targets
  /\ \A k \in DOMAIN Minimal : Minimal[k] # Garbage
  /\ \A k \in SectionSettings : Defaults[k] # Garbage
  /\ \A k \in Settings : Zero(k) # Garbage

Changes == UNION {{k} \X Choices(k) : k \in Settings}
Reachable == {change \in Changes : change[1][1] # "targets"}
Layer(change) == [k \in {change[1]} |-> change[2]]

Init ==
  /\ \/ \E one, two \in Changes : /\ file = Over(Layer(one), Over(Layer(two), Minimal))
                                  /\ env = <<>>
     \/ \E one \in Changes, two \in Reachable :
          file = Over(Layer(one), Minimal) /\ env = Layer(two)
  /\ flag \in {"", "oneshot", "continuous", "other"}
  /\ stage = "start"
  /\ cfg = Layered

\* decodeSections; the layers have just been read.
Decode ==
  /\ stage = "start"
  /\ stage' = IF \E k \in Settings : cfg[k] = Garbage THEN "rejected" ELSE "decoded"
  /\ UNCHANGED <<file, env, flag, cfg>>

\* Mutant: the defaults are applied after the validation.
Default_TooLate ==
  /\ stage = "decoded"
  /\ stage' = IF Valid(cfg) THEN "defaulted" ELSE "rejected"
  /\ cfg' = ApplyDefaults(cfg)
  /\ UNCHANGED <<file, env, flag>>

Default ==
  /\ stage = "decoded"
  /\ stage' = "defaulted"
  /\ cfg' = ApplyDefaults(cfg)
  /\ UNCHANGED <<file, env, flag>>

Validate ==
  /\ stage = "defaulted"
  /\ stage' = IF Valid(cfg) THEN "loaded" ELSE "rejected"
  /\ UNCHANGED <<file, env, flag, cfg>>

\* ProvideConfig: the flag overrides a mode that was valid already.
Provide ==
  /\ stage = "loaded"
  /\ stage' = IF flag \in Modes \cup {""} THEN "accepted" ELSE "rejected"
  /\ cfg' = IF flag \in Modes THEN [cfg EXCEPT ![<<"app", "mode">>] = flag] ELSE cfg
  /\ UNCHANGED <<file, env, flag>>

Done == stage \in {"accepted", "rejected"} /\ UNCHANGED vars

Next == Decode \/ Default \/ Validate \/ Provide \/ Done

Spec == Init /\ [][Next]_vars

-----------------------------------------------------------------------------
\* Whatever the layers say, a configuration that is accepted can be run: what
\* Checker, Scheduler, Oneshot and Fanout assume of their constants holds, with
\* the inherited values and the flag in place (validate runs on "the values the
\* application will actually run with").
AcceptedIsRunnable ==
  stage = "accepted" =>
    /\ cfg[<<"app", "mode">>] \in Modes
    /\ cfg[<<"app", "concurrency">>] >= 1
    /\ cfg[<<"app", "reminder_multiplier">>] >= 0
    /\ cfg[<<"retry", "max_attempts">>] >= 1
    /\ cfg[<<"retry", "initial_wait">>] \in 1..cfg[<<"retry", "max_wait">>]
    /\ \A t \in Targets : Target(cfg, t, "interval") > 0 /\ Target(cfg, t, "timeout") > 0
    /\ \A a \in Alerters : Alerter(cfg, a, "enabled") => Alerter(cfg, a, "timeout") > 0

\* README, TCP checks: "Joghd refuses to start when a tcp:// target would use
\* one [an HTTP proxy], including one inherited from http.proxy".
NoTCPThroughHTTPProxy ==
  stage = "accepted" => \A t \in Targets :
    LET own == Target(Layered, t, "proxy")
        used == IF own = "" THEN Layered[<<"http", "proxy">>] ELSE own
    IN  IsTCP(cfg, t) => used \in {"", "direct", "socks5"} /\ Target(cfg, t, "proxy") = used

\* README, certificate expiry warnings: a target's own window wins, zero
\* inherits the global one, and a negative one stays off.
WindowIsInheritedOrOff ==
  stage = "accepted" => \A t \in Targets :
    LET own == Target(Layered, t, "cert_expiry_warning")
        used == Target(cfg, t, "cert_expiry_warning")
    IN  IF own = 0 THEN used = Layered[<<"http", "cert_expiry_warning">>] ELSE used = own

\* A target entry may write zero for a setting that has a default.
MeansDefault(k, v) ==
  k \in EntrySettings /\ Field(k) \in {"timeout", "interval", "expected_status",
                                       "proxy", "cert_expiry_warning"} /\ v = Zero(k)

\* Something set differs from the smallest document and does not mean a default.
Unusual ==
  LET given == Over(env, file)
  IN  \E k \in DOMAIN given :
        /\ k \in DOMAIN Minimal => given[k] # Minimal[k]
        /\ ~MeansDefault(k, given[k])

\* A setting left out, or written as zero where zero means the default, is
\* never why a configuration is refused (applyDefaults comes before validate):
\* one that is refused has a wrong flag, no target, or something unusual set.
DefaultsAreNeverRefused ==
  stage = "rejected" => flag = "other" \/ Targets = {} \/ Unusual

=============================================================================

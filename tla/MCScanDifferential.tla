------------------------- MODULE MCScanDifferential -------------------------
(* Inputs for the blocks of ScanDifferential and BlockDefinitions. *)
EXTENDS BlockDefinitions

Kinds == {"true_delay", "timer", "timer_with_reset", "timer_accumulating",
          "true_false_hold", "pre", "one_shot", "falling_edge", "changed", "increased",
          "decreased", "initialization", "set_reset", "hysteresis", "sampler", "unit_delay",
          "first_order_hold", "sample_trigger", "integrator", "on_counter", "pid",
          "moving_average", "trim_and_respond"} \cup Program

\* The conditions of a chiller that runs, and what can happen to each of them.
Running == [cooling_plant |-> TRUE, heating_plant |-> TRUE, status |-> TRUE, cooling_load |-> 11,
            heating_load |-> 12, chilled |-> 8, heating |-> 50, cooling_mode |-> FALSE]

ChillerInputs ==
    {Running, [Running EXCEPT !.cooling_plant = FALSE], [Running EXCEPT !.heating_plant = FALSE],
     [Running EXCEPT !.status = FALSE, !.cooling_load = 10], [Running EXCEPT !.cooling_load = 9],
     [Running EXCEPT !.chilled = 5], [Running EXCEPT !.heating = 61, !.cooling_mode = TRUE]}

Inputs(b) ==
    CASE b \in {"timer_with_reset", "timer_accumulating"} -> [in : BOOLEAN, reset : BOOLEAN]
      [] b = "set_reset" -> [set : BOOLEAN, clear : BOOLEAN]
      [] b \in {"changed", "increased", "decreased", "hysteresis"} -> [in : 0 .. 3]
      [] b \in {"sampler", "unit_delay", "first_order_hold", "moving_average"} -> [in : {0, 1, 3}]
      [] b = "sample_trigger" -> [in : {0}]
      [] b = "integrator" -> [in : {0, 1}, reset_value : {5}, trigger : BOOLEAN]
      [] b = "on_counter" -> [trigger : BOOLEAN, reset : BOOLEAN]
      [] b = "pid" -> [setpoint : {1}, measurement : {0, 1, 3}, trigger : BOOLEAN]
      [] b = "trim_and_respond" -> [request_count : {0, 3}, device_on : BOOLEAN, hold : BOOLEAN]
      [] b = "equipment" -> [heating : BOOLEAN, cooling : BOOLEAN, available : BOOLEAN]
      [] b = "plant_enable" -> [schedule : BOOLEAN, requests : {1, 2}, outdoor : {14, 15, 17}]
      [] b = "hrc_enable" -> ChillerInputs
      [] b = "hrc_mode" -> [set_mode : BOOLEAN, cooling_load : {5, 6, 7}, heating_load : {12}]
      [] b = "stage_completion" -> [commands : SUBSET {1, 2}, statuses : {{}, {1}, {1, 2}},
                                    stage : 0 .. 2]
      [] b = "stage_index" -> [lead : BOOLEAN, up : BOOLEAN, down : BOOLEAN,
                               available : {{}, {1}, {1, 2}, {2, 3}, {1, 3}}]
      [] OTHER -> [in : BOOLEAN]

TrimDefinition ==
    [initial |-> 5, minimum |-> 2, maximum |-> 8, delay |-> 1, ignored |-> 1, trim |-> -1,
     respond |-> 2, most |-> 3, holds |-> TRUE, holdFor |-> 2]

\* Long enough for a chiller to start, stop and start again; shorter for the three kinds with
\* the most inputs and fields.
Horizons(b) ==
    CASE b = "hrc_enable" -> 9
      [] b \in {"integrator", "on_counter", "trim_and_respond"} -> 7
      [] OTHER -> 8

PlantParameters ==
    [off_time |-> 2, ignored |-> 1, low_request_time |-> 2, lockout |-> 15,
     minimum_state_time |-> 1, cooling_capacity |-> 10, heating_capacity |-> 10, load_time |-> 1,
     enable_delay |-> 2,
     chilled_limit |-> 5, heating_limit |-> 60, first_time |-> 2, second_time |-> 1,
     heating_cop |-> 2, minimum_runtime |-> 2]
=============================================================================

--------------------------- MODULE BenchmarkCases ---------------------------
(***************************************************************************)
(* The frozen benchmark corpus: one record per BenchmarkCase, in the terms *)
(* of SymbolicPipeline.  A rule holds the propositions of its case its     *)
(* predicate occurs in; `relevant` the ones, besides the percept's own,    *)
(* that hold one of its words; `answer` the proposition the expected action text quotes.      *)
(* Beliefs, rules and concepts are listed in the order of their ids, and a *)
(* candidate hypothesis is its number.  A field a case leaves out keeps    *)
(* the value of EmptyCase, and a trace field left at its default asserts   *)
(* nothing.                                                                *)
(***************************************************************************)
EXTENDS Integers, Sequences

\* _belief, and InferenceRule with its one condition.
B(id, prop, conf) == [id |-> id, prop |-> prop, conf |-> conf]
R(id, pred, min, conclusion, multiplier) ==
  [id |-> id, pred |-> pred, min |-> min, conclusion |-> conclusion, multiplier |-> multiplier]

\* GoldenTrace with every field at its default; conflicts are pairs of
\* candidate numbers, derived beliefs pairs of a rule and its firing number.
NoTrace ==
  [concepts |-> <<>>, retrieved |-> <<>>, hypotheses |-> <<>>, fired |-> {},
   conflicts |-> <<>>, thoughts |-> 0, derived |-> <<>>]

\* The defaults of BenchmarkCase; `answer` "percept" stands for the percept's
\* own text, `intent` "any" for None, and `accepted` is the baseline's
\* <<hypothesis, confidence>>.
EmptyCase ==
  [percept |-> "", seeds |-> <<>>, contradicts |-> {}, rules |-> <<>>, concepts |-> <<>>,
   isA |-> {}, goals |-> <<>>, relevant |-> {}, active |-> {}, excluded |-> {},
   answer |-> "percept", min |-> 5000, max |-> 10000, intent |-> "any", golden |-> NoTrace,
   baseline |-> NoTrace, accepted |-> <<>>, goal |-> "none"]

\* AMB-001: Sky Colour Ambiguity
ambiguity_001 == [EmptyCase EXCEPT
  !.percept = "what color is the sky",
  !.seeds = <<
      B("b_sky_blue", "the sky is blue", 8000), B("b_sky_grey", "the sky is grey", 7000)>>,
  !.relevant = {"the sky is blue", "the sky is grey"},
  !.active = {"the sky is blue", "the sky is grey"},
  !.golden = [NoTrace EXCEPT
      !.retrieved = <<"b_sky_blue", "b_sky_grey">>, !.hypotheses = <<3, 1, 2>>]]

\* AMB-002: Door State Equal-Confidence Ambiguity
ambiguity_002 == [EmptyCase EXCEPT
  !.percept = "check the door",
  !.seeds = <<
      B("b_door_closed", "the door is closed", 8000),
      B("b_door_open", "the door is open", 8000)>>,
  !.relevant = {"the door is closed", "the door is open"},
  !.active = {"the door is closed", "the door is open"},
  !.golden = [NoTrace EXCEPT
      !.retrieved = <<"b_door_closed", "b_door_open">>, !.hypotheses = <<3, 1, 2>>]]

\* AMB-003: Three-Way Weather Ambiguity
ambiguity_003 == [EmptyCase EXCEPT
  !.percept = "what is the weather today",
  !.seeds = <<
      B("b_weather_rain", "it will rain today", 8000),
      B("b_weather_snow", "it will snow today", 7000),
      B("b_weather_sunny", "it will be sunny today", 6000)>>,
  !.relevant = {"it will be sunny today", "it will rain today", "it will snow today"},
  !.active = {"it will rain today", "it will snow today", "it will be sunny today"},
  !.golden = [NoTrace EXCEPT
      !.retrieved = <<"b_weather_rain", "b_weather_snow", "b_weather_sunny">>,
      !.hypotheses = <<4, 1, 2, 3>>]]

\* AMB-004: Meeting Time Ambiguity
ambiguity_004 == [EmptyCase EXCEPT
  !.percept = "what time is the meeting",
  !.seeds = <<
      B("b_meeting_cancel", "the meeting is cancelled", 5000),
      B("b_meeting_noon", "the meeting is at noon", 9000)>>,
  !.relevant = {"the meeting is at noon", "the meeting is cancelled"},
  !.active = {"the meeting is cancelled", "the meeting is at noon"},
  !.golden = [NoTrace EXCEPT
      !.retrieved = <<"b_meeting_cancel", "b_meeting_noon">>, !.hypotheses = <<3, 2, 1>>]]

\* AMB-005: Lexical Bank Ambiguity
ambiguity_005 == [EmptyCase EXCEPT
  !.percept = "which bank closes today",
  !.seeds = <<
      B("b_bank_open", "the bank opens at nine", 8000),
      B("b_bank_river", "the bank is near the river", 8000)>>,
  !.relevant = {"the bank is near the river", "the bank opens at nine"},
  !.active = {"the bank opens at nine", "the bank is near the river"},
  !.golden = [NoTrace EXCEPT
      !.retrieved = <<"b_bank_open", "b_bank_river">>, !.hypotheses = <<3, 1, 2>>]]

\* AMB-006: Graded Sky Interpretation
ambiguity_006 == [EmptyCase EXCEPT
  !.percept = "how is the sky looking",
  !.seeds = <<
      B("b_sky_clear", "the sky is clear", 9000), B("b_sky_hazy", "the sky is hazy", 5000),
      B("b_sky_overcast", "the sky is overcast", 7000)>>,
  !.relevant = {"the sky is clear", "the sky is hazy", "the sky is overcast"},
  !.active = {"the sky is clear", "the sky is hazy", "the sky is overcast"},
  !.min = 9000,
  !.intent = "maintain_conversation",
  !.golden = [NoTrace EXCEPT
      !.retrieved = <<"b_sky_clear", "b_sky_hazy", "b_sky_overcast">>,
      !.hypotheses = <<4, 1, 3, 2>>, !.conflicts = <<<<4, 1>>, <<4, 3>>, <<4, 2>>>>],
  !.baseline = [NoTrace EXCEPT
      !.retrieved = <<"b_sky_clear", "b_sky_hazy", "b_sky_overcast">>,
      !.hypotheses = <<4, 1, 3, 2>>, !.conflicts = <<<<4, 1>>, <<4, 3>>, <<4, 2>>>>,
      !.derived = <<<<"percept", 0>>>>],
  !.accepted = <<4, 10000>>,
  !.goal = "maintainconversation"]

\* AMB-007: Date Synonym Ambiguity
ambiguity_007 == [EmptyCase EXCEPT
  !.percept = "what is the date",
  !.seeds = <<
      B("b_date_fruit", "the date is a sweet fruit", 7000),
      B("b_date_meeting", "the date is set for the meeting", 9000)>>,
  !.relevant = {"the date is a sweet fruit", "the date is set for the meeting"},
  !.active = {"the date is a sweet fruit", "the date is set for the meeting"},
  !.min = 9000,
  !.intent = "maintain_conversation",
  !.golden = [NoTrace EXCEPT
      !.retrieved = <<"b_date_fruit", "b_date_meeting">>, !.hypotheses = <<3, 2, 1>>,
      !.conflicts = <<<<3, 2>>, <<3, 1>>>>],
  !.baseline = [NoTrace EXCEPT
      !.retrieved = <<"b_date_fruit", "b_date_meeting">>, !.hypotheses = <<3, 2, 1>>,
      !.conflicts = <<<<3, 2>>, <<3, 1>>>>, !.derived = <<<<"percept", 0>>>>],
  !.accepted = <<3, 10000>>,
  !.goal = "maintainconversation"]

\* AMB-008: False Association Light
ambiguity_008 == [EmptyCase EXCEPT
  !.percept = "how heavy is the light",
  !.seeds = <<
      B("b_light_bright", "the light is bright", 6000),
      B("b_light_weight", "the light package is easy to carry", 9000)>>,
  !.relevant = {"the light is bright", "the light package is easy to carry"},
  !.active = {"the light is bright", "the light package is easy to carry"},
  !.min = 9000,
  !.intent = "maintain_conversation",
  !.golden = [NoTrace EXCEPT
      !.retrieved = <<"b_light_bright", "b_light_weight">>, !.hypotheses = <<3, 2, 1>>,
      !.conflicts = <<<<3, 2>>, <<3, 1>>>>],
  !.baseline = [NoTrace EXCEPT
      !.retrieved = <<"b_light_bright", "b_light_weight">>, !.hypotheses = <<3, 2, 1>>,
      !.conflicts = <<<<3, 2>>, <<3, 1>>>>, !.derived = <<<<"percept", 0>>>>],
  !.accepted = <<3, 10000>>,
  !.goal = "maintainconversation"]

\* CAUSAL-001: Rain and Wet Ground
causal_reasoning_001 == [EmptyCase EXCEPT
  !.percept = "The sky is raining heavily outside",
  !.seeds = <<B("c_rain", "raining", 10000)>>,
  !.rules = <<
      R("rain_umbrella", {"The sky is raining heavily outside", "raining"}, 5000, "Suggest carrying an umbrella", 9000)>>,
  !.relevant = {"raining"},
  !.active = {"Suggest carrying an umbrella"},
  !.golden = [NoTrace EXCEPT
      !.retrieved = <<"c_rain">>, !.fired = {"rain_umbrella"}, !.thoughts = 1]]

\* CAUSAL-002: Smoke Indicates Fire
causal_reasoning_002 == [EmptyCase EXCEPT
  !.percept = "Smoke is rising from the chimney",
  !.seeds = <<B("c_smoke", "smoke", 10000)>>,
  !.rules = <<
      R("smoke_fire", {"Smoke is rising from the chimney", "smoke"}, 5000, "Fire is likely nearby", 9000)>>,
  !.relevant = {"Fire is likely nearby", "smoke"},
  !.active = {"Fire is likely nearby"},
  !.golden = [NoTrace EXCEPT
      !.retrieved = <<"c_smoke">>, !.fired = {"smoke_fire"}, !.thoughts = 1]]

\* CAUSAL-003: Drought and Crop Failure
causal_reasoning_003 == [EmptyCase EXCEPT
  !.percept = "There is a severe drought this season",
  !.seeds = <<B("c_drought", "drought", 10000)>>,
  !.rules = <<
      R("drought_crop_failure", {"There is a severe drought this season", "drought"}, 5000, "Crops may fail", 8500)>>,
  !.relevant = {"Crops may fail", "drought"},
  !.active = {"Crops may fail"},
  !.golden = [NoTrace EXCEPT
      !.retrieved = <<"c_drought">>, !.fired = {"drought_crop_failure"}, !.thoughts = 1]]

\* CAUSAL-004: Studying Builds Knowledge
causal_reasoning_004 == [EmptyCase EXCEPT
  !.percept = "I am studying every evening",
  !.seeds = <<B("c_study", "studying", 10000)>>,
  !.rules = <<
      R("study_knowledge", {"I am studying every evening", "Knowledge improves with studying", "studying"}, 5000, "Knowledge improves with studying", 9000)>>,
  !.relevant = {"Knowledge improves with studying", "studying"},
  !.active = {"Knowledge improves with studying"},
  !.golden = [NoTrace EXCEPT
      !.retrieved = <<"c_study">>, !.fired = {"study_knowledge"}, !.thoughts = 1]]

\* CAUSAL-005: Rain-to-Slippery Causal Chain
causal_reasoning_005 == [EmptyCase EXCEPT
  !.percept = "rain is falling",
  !.seeds = <<B("c_rain", "raining", 10000)>>,
  !.rules = <<
      R("rain_wet_ground", {"rain is falling", "raining"}, 5000, "the ground is wet", 8000),
      R("wet_ground_slippery", {"the ground is wet"}, 5000, "the ground is slippery", 9000)>>,
  !.relevant = {"raining", "the ground is slippery", "the ground is wet"},
  !.active = {"the ground is wet", "the ground is slippery"},
  !.golden = [NoTrace EXCEPT
      !.retrieved = <<"c_rain">>, !.fired = {"rain_wet_ground", "wet_ground_slippery"},
      !.thoughts = 2]]

\* CAUSAL-006: Sunrise and Daylight
causal_reasoning_006 == [EmptyCase EXCEPT
  !.percept = "The sun rises in the east",
  !.seeds = <<B("c_sunrise", "sunrise", 10000)>>,
  !.rules = <<
      R("sunrise_daylight", {"Daylight follows sunrise", "sunrise"}, 5000, "Daylight follows sunrise", 9000)>>,
  !.relevant = {"Daylight follows sunrise", "sunrise"},
  !.active = {"Daylight follows sunrise"},
  !.golden = [NoTrace EXCEPT
      !.retrieved = <<"c_sunrise">>, !.fired = {"sunrise_daylight"}, !.thoughts = 1]]

\* CAUSAL-007: Steam Is Not Smoke
causal_reasoning_007 == [EmptyCase EXCEPT
  !.percept = "I can see steam in the kitchen",
  !.seeds = <<B("c_steam", "steam is rising from the kettle", 10000)>>,
  !.rules = <<R("steam_smoke_fire", {}, 5000, "Fire is likely nearby", 9000)>>,
  !.relevant = {"Fire is likely nearby", "steam is rising from the kettle"},
  !.active = {"steam is rising from the kettle"},
  !.excluded = {"Fire is likely nearby"},
  !.answer = "steam is rising from the kettle",
  !.golden = [NoTrace EXCEPT !.retrieved = <<"c_steam">>]]

\* CAUSAL-008: Low-Confidence Premise Fails to Fire
causal_reasoning_008 == [EmptyCase EXCEPT
  !.percept = "check the road conditions",
  !.seeds = <<B("c_road", "the road is icy", 4000)>>,
  !.rules = <<R("icy_road_hazard", {"the road is icy"}, 8000, "Driving is hazardous", 9000)>>,
  !.relevant = {"the road is icy"},
  !.active = {"the road is icy"},
  !.excluded = {"Driving is hazardous"},
  !.min = 0,
  !.golden = [NoTrace EXCEPT !.retrieved = <<"c_road">>]]

\* CAUSAL-009: Three-Hop Forecast Chain
causal_reasoning_009 == [EmptyCase EXCEPT
  !.percept = "what does the forecast mean",
  !.seeds = <<B("c_rain", "raining", 10000)>>,
  !.rules = <<
      R("rain_wet", {"raining"}, 5000, "the ground is wet", 9000),
      R("slippery_fall", {"the path is slippery"}, 5000, "warn about slipping", 8000),
      R("wet_slippery", {"the ground is wet"}, 5000, "the path is slippery", 8500)>>,
  !.relevant = {"the ground is wet", "the path is slippery"},
  !.active = {"the ground is wet", "the path is slippery", "warn about slipping"},
  !.min = 9000,
  !.intent = "maintain_conversation",
  !.golden = [NoTrace EXCEPT
      !.retrieved = <<"c_rain">>, !.hypotheses = <<3, 1, 2>>,
      !.fired = {"rain_wet", "slippery_fall", "wet_slippery"},
      !.conflicts = <<<<3, 1>>, <<3, 2>>>>, !.thoughts = 3],
  !.baseline = [NoTrace EXCEPT
      !.retrieved = <<"c_rain">>, !.hypotheses = <<3, 1, 2>>,
      !.fired = {"rain_wet", "slippery_fall", "wet_slippery"},
      !.conflicts = <<<<3, 1>>, <<3, 2>>>>, !.thoughts = 3,
      !.derived = <<<<"rain_wet", 1>>, <<"slippery_fall", 3>>, <<"wet_slippery", 2>>, <<"percept", 0>>>>],
  !.accepted = <<3, 10000>>,
  !.goal = "maintainconversation"]

\* CAUSAL-010: Sleet Distractor Rule
causal_reasoning_010 == [EmptyCase EXCEPT
  !.percept = "snow is falling",
  !.seeds = <<B("c_snow", "snow is falling", 10000)>>,
  !.rules = <<
      R("sleet_cancel", {}, 5000, "travel is cancelled", 9000),
      R("snow_slippery", {"snow is falling"}, 5000, "the roads are slippery", 8500)>>,
  !.relevant = {"travel is cancelled"},
  !.active = {"the roads are slippery"},
  !.excluded = {"travel is cancelled"},
  !.min = 9000,
  !.intent = "maintain_conversation",
  !.golden = [NoTrace EXCEPT
      !.retrieved = <<"c_snow">>, !.hypotheses = <<2, 1>>, !.fired = {"snow_slippery"},
      !.conflicts = <<<<2, 1>>>>, !.thoughts = 1],
  !.baseline = [NoTrace EXCEPT
      !.retrieved = <<"c_snow">>, !.hypotheses = <<2, 1>>, !.fired = {"snow_slippery"},
      !.conflicts = <<<<2, 1>>>>, !.thoughts = 1,
      !.derived = <<<<"snow_slippery", 1>>, <<"percept", 0>>>>],
  !.accepted = <<2, 10000>>,
  !.goal = "maintainconversation"]

\* COMMON-001: Water Freezing Point
commonsense_001 == [EmptyCase EXCEPT
  !.percept = "Water freezes in the winter",
  !.seeds = <<B("c_water_freezing", "water freezes below zero degrees Celsius", 10000)>>,
  !.relevant = {"water freezes below zero degrees Celsius"},
  !.active = {"water freezes below zero degrees Celsius"},
  !.answer = "water freezes below zero degrees Celsius",
  !.golden = [NoTrace EXCEPT !.retrieved = <<"c_water_freezing">>]]

\* COMMON-002: Birds Migrate South
commonsense_002 == [EmptyCase EXCEPT
  !.percept = "Birds fly south",
  !.seeds = <<B("c_birds", "birds fly south in autumn", 10000)>>,
  !.relevant = {"birds fly south in autumn"},
  !.active = {"birds fly south in autumn"},
  !.answer = "birds fly south in autumn",
  !.golden = [NoTrace EXCEPT !.retrieved = <<"c_birds">>]]

\* COMMON-003: Fire Needs Oxygen
commonsense_003 == [EmptyCase EXCEPT
  !.percept = "Fire burns in the air",
  !.seeds = <<B("c_fire_oxygen", "fire needs oxygen to burn", 10000)>>,
  !.relevant = {"fire needs oxygen to burn"},
  !.active = {"fire needs oxygen to burn"},
  !.answer = "fire needs oxygen to burn",
  !.golden = [NoTrace EXCEPT !.retrieved = <<"c_fire_oxygen">>]]

\* COMMON-004: Plants Seek Sunlight
commonsense_004 == [EmptyCase EXCEPT
  !.percept = "Plants grow in the garden",
  !.seeds = <<B("c_plants", "plants grow towards sunlight", 10000)>>,
  !.relevant = {"plants grow towards sunlight"},
  !.active = {"plants grow towards sunlight"},
  !.answer = "plants grow towards sunlight",
  !.golden = [NoTrace EXCEPT !.retrieved = <<"c_plants">>]]

\* COMMON-005: Metal Expansion
commonsense_005 == [EmptyCase EXCEPT
  !.percept = "Metal expands",
  !.seeds = <<B("c_metal", "metal expands when heated", 10000)>>,
  !.relevant = {"metal expands when heated"},
  !.active = {"metal expands when heated"},
  !.answer = "metal expands when heated",
  !.golden = [NoTrace EXCEPT !.retrieved = <<"c_metal">>]]

\* COMMON-006: Apple Distractor Evidence
commonsense_006 == [EmptyCase EXCEPT
  !.percept = "is an apple healthy",
  !.seeds = <<
      B("c_apple_fruit", "an apple is a fruit", 9000),
      B("c_apple_tech", "apple makes computers", 8500)>>,
  !.goals = <<"ProvideRecommendation">>,
  !.relevant = {"an apple is a fruit", "apple makes computers"},
  !.active = {"an apple is a fruit", "apple makes computers"},
  !.min = 9000,
  !.intent = "provide_recommendation",
  !.golden = [NoTrace EXCEPT
      !.retrieved = <<"c_apple_fruit", "c_apple_tech">>, !.hypotheses = <<3, 1, 2>>,
      !.conflicts = <<<<3, 1>>, <<3, 2>>>>],
  !.baseline = [NoTrace EXCEPT
      !.retrieved = <<"c_apple_fruit", "c_apple_tech">>, !.hypotheses = <<3, 1, 2>>,
      !.conflicts = <<<<3, 1>>, <<3, 2>>>>, !.derived = <<<<"percept", 0>>>>],
  !.accepted = <<3, 10000>>,
  !.goal = "providerecommendation"]

\* COMMON-007: Bats False Association
commonsense_007 == [EmptyCase EXCEPT
  !.percept = "what do bats eat",
  !.seeds = <<
      B("c_bats_birds", "bats are birds", 5500),
      B("c_bats_mammals", "bats are mammals", 9000)>>,
  !.contradicts = {{"c_bats_birds", "c_bats_mammals"}},
  !.goals = <<"RememberFact">>,
  !.relevant = {"bats are birds", "bats are mammals"},
  !.active = {"bats are mammals"},
  !.excluded = {"bats are birds"},
  !.min = 9000,
  !.intent = "remember_fact",
  !.golden = [NoTrace EXCEPT
      !.retrieved = <<"c_bats_birds", "c_bats_mammals">>, !.hypotheses = <<2, 1>>,
      !.conflicts = <<<<2, 1>>>>],
  !.baseline = [NoTrace EXCEPT
      !.retrieved = <<"c_bats_birds", "c_bats_mammals">>, !.hypotheses = <<2, 1>>,
      !.conflicts = <<<<2, 1>>>>, !.derived = <<<<"percept", 0>>>>],
  !.accepted = <<2, 10000>>,
  !.goal = "rememberfact"]

\* CONT-001: Sky Colour Conflict
contradiction_001 == [EmptyCase EXCEPT
  !.percept = "Look at the sky",
  !.seeds = <<
      B("b_sky_blue", "the sky is blue", 9000), B("b_sky_grey", "the sky is grey", 6000)>>,
  !.contradicts = {{"b_sky_blue", "b_sky_grey"}},
  !.relevant = {"the sky is blue", "the sky is grey"},
  !.active = {"the sky is blue"},
  !.excluded = {"the sky is grey"},
  !.golden = [NoTrace EXCEPT !.retrieved = <<"b_sky_blue", "b_sky_grey">>]]

\* CONT-002: Door State Conflict
contradiction_002 == [EmptyCase EXCEPT
  !.percept = "Check the door",
  !.seeds = <<
      B("b_door_closed", "the door is closed", 5000),
      B("b_door_open", "the door is open", 8000)>>,
  !.contradicts = {{"b_door_open", "b_door_closed"}},
  !.relevant = {"the door is closed", "the door is open"},
  !.active = {"the door is open"},
  !.excluded = {"the door is closed"},
  !.golden = [NoTrace EXCEPT !.retrieved = <<"b_door_closed", "b_door_open">>]]

\* CONT-003: Day and Night Conflict
contradiction_003 == [EmptyCase EXCEPT
  !.percept = "What time is it",
  !.seeds = <<B("b_day", "it is day", 9500), B("b_night", "it is night", 4000)>>,
  !.contradicts = {{"b_day", "b_night"}},
  !.relevant = {"it is day", "it is night"},
  !.active = {"it is day"},
  !.excluded = {"it is night"},
  !.golden = [NoTrace EXCEPT !.retrieved = <<"b_day", "b_night">>]]

\* CONT-004: Market Trend Conflict
contradiction_004 == [EmptyCase EXCEPT
  !.percept = "Check the market",
  !.seeds = <<
      B("b_stock_falling", "the stock is falling", 6000),
      B("b_stock_rising", "the stock is rising", 7000)>>,
  !.contradicts = {{"b_stock_rising", "b_stock_falling"}},
  !.relevant = {"the stock is falling", "the stock is rising"},
  !.active = {"the stock is rising"},
  !.excluded = {"the stock is falling"},
  !.golden = [NoTrace EXCEPT !.retrieved = <<"b_stock_falling", "b_stock_rising">>]]

\* CONT-005: Engine Temperature Conflict
contradiction_005 == [EmptyCase EXCEPT
  !.percept = "Inspect the engine",
  !.seeds = <<
      B("b_engine_cool", "the engine is cool", 3000),
      B("b_engine_hot", "the engine is hot", 9000)>>,
  !.contradicts = {{"b_engine_hot", "b_engine_cool"}},
  !.relevant = {"the engine is cool", "the engine is hot"},
  !.active = {"the engine is hot"},
  !.excluded = {"the engine is cool"},
  !.golden = [NoTrace EXCEPT !.retrieved = <<"b_engine_cool", "b_engine_hot">>]]

\* CONT-006: Light State Equal-Confidence Tie
contradiction_006 == [EmptyCase EXCEPT
  !.percept = "check the light",
  !.seeds = <<
      B("b_light_off", "the light is off", 7000), B("b_light_on", "the light is on", 7000)>>,
  !.contradicts = {{"b_light_off", "b_light_on"}},
  !.relevant = {"the light is off", "the light is on"},
  !.active = {"the light is off"},
  !.excluded = {"the light is on"},
  !.golden = [NoTrace EXCEPT !.retrieved = <<"b_light_off", "b_light_on">>]]

\* CONT-007: Low-Confidence Signal Conflict
contradiction_007 == [EmptyCase EXCEPT
  !.percept = "check the signal",
  !.seeds = <<
      B("b_signal_strong", "the signal is strong", 4000),
      B("b_signal_weak", "the signal is weak", 3000)>>,
  !.contradicts = {{"b_signal_strong", "b_signal_weak"}},
  !.relevant = {"the signal is strong", "the signal is weak"},
  !.active = {"the signal is strong"},
  !.excluded = {"the signal is weak"},
  !.min = 0,
  !.golden = [NoTrace EXCEPT !.retrieved = <<"b_signal_strong", "b_signal_weak">>]]

\* CONT-008: Graded Market Conflict
contradiction_008 == [EmptyCase EXCEPT
  !.percept = "check the market",
  !.seeds = <<
      B("b_market_falling", "the market is falling", 3000),
      B("b_market_rising", "the market is rising", 9000)>>,
  !.contradicts = {{"b_market_rising", "b_market_falling"}},
  !.relevant = {"the market is falling", "the market is rising"},
  !.active = {"the market is rising"},
  !.excluded = {"the market is falling"},
  !.min = 9000,
  !.intent = "maintain_conversation",
  !.golden = [NoTrace EXCEPT
      !.retrieved = <<"b_market_falling", "b_market_rising">>, !.hypotheses = <<2, 1>>,
      !.conflicts = <<<<2, 1>>>>],
  !.baseline = [NoTrace EXCEPT
      !.retrieved = <<"b_market_falling", "b_market_rising">>, !.hypotheses = <<2, 1>>,
      !.conflicts = <<<<2, 1>>>>, !.derived = <<<<"percept", 0>>>>],
  !.accepted = <<2, 10000>>,
  !.goal = "maintainconversation"]

\* CONT-009: Low-Absolute-Confidence Conflict
contradiction_009 == [EmptyCase EXCEPT
  !.percept = "read the gate signal",
  !.seeds = <<
      B("b_signal_gate_high", "the gate signal is high", 4500),
      B("b_signal_gate_low", "the gate signal is low", 3500)>>,
  !.contradicts = {{"b_signal_gate_high", "b_signal_gate_low"}},
  !.relevant = {"the gate signal is high", "the gate signal is low"},
  !.active = {"the gate signal is high"},
  !.excluded = {"the gate signal is low"},
  !.min = 9000,
  !.intent = "maintain_conversation",
  !.golden = [NoTrace EXCEPT
      !.retrieved = <<"b_signal_gate_high", "b_signal_gate_low">>, !.hypotheses = <<2, 1>>,
      !.conflicts = <<<<2, 1>>>>],
  !.baseline = [NoTrace EXCEPT
      !.retrieved = <<"b_signal_gate_high", "b_signal_gate_low">>, !.hypotheses = <<2, 1>>,
      !.conflicts = <<<<2, 1>>>>, !.derived = <<<<"percept", 0>>>>],
  !.accepted = <<2, 10000>>,
  !.goal = "maintainconversation"]

\* TAXO-001: Mammal Is A Animal
taxonomy_001 == [EmptyCase EXCEPT
  !.percept = "What is a mammal",
  !.concepts = <<"animal", "mammal">>,
  !.isA = {<<"mammal", "animal">>},
  !.golden = [NoTrace EXCEPT !.concepts = <<"animal", "mammal">>]]

\* TAXO-002: Car Is A Vehicle
taxonomy_002 == [EmptyCase EXCEPT
  !.percept = "Tell me about cars",
  !.concepts = <<"car", "vehicle">>,
  !.isA = {<<"car", "vehicle">>},
  !.golden = [NoTrace EXCEPT !.concepts = <<"car", "vehicle">>]]

\* TAXO-003: Plant Is A Organism
taxonomy_003 == [EmptyCase EXCEPT
  !.percept = "Describe plants",
  !.concepts = <<"organism", "plant">>,
  !.isA = {<<"plant", "organism">>},
  !.golden = [NoTrace EXCEPT !.concepts = <<"organism", "plant">>]]

\* TAXO-004: Fruit Is A Food
taxonomy_004 == [EmptyCase EXCEPT
  !.percept = "Talk about fruit",
  !.concepts = <<"food", "fruit">>,
  !.isA = {<<"fruit", "food">>},
  !.golden = [NoTrace EXCEPT !.concepts = <<"food", "fruit">>]]

\* TAXO-005: City Is A Place
taxonomy_005 == [EmptyCase EXCEPT
  !.percept = "Explain cities",
  !.concepts = <<"city", "place">>,
  !.isA = {<<"city", "place">>},
  !.golden = [NoTrace EXCEPT !.concepts = <<"city", "place">>]]

\* TAXO-006: Inheritance Property Chain
taxonomy_006 == [EmptyCase EXCEPT
  !.percept = "tell me about dogs",
  !.seeds = <<B("c_dog", "a dog is a mammal", 10000)>>,
  !.rules = <<
      R("animal_breathe", {"warm-blooded animals regulate heat"}, 5000, "oxygen is needed to survive", 9000),
      R("mammal_inherit", {"a dog is a mammal"}, 5000, "warm-blooded animals regulate heat", 9500)>>,
  !.concepts = <<"animal", "dog", "mammal">>,
  !.isA = {<<"dog", "mammal">>, <<"mammal", "animal">>},
  !.goals = <<"AnswerQuestion">>,
  !.active = {"warm-blooded animals regulate heat", "oxygen is needed to survive"},
  !.min = 9000,
  !.intent = "answer_question",
  !.golden = [NoTrace EXCEPT
      !.concepts = <<"animal", "dog", "mammal">>, !.retrieved = <<"c_dog">>,
      !.hypotheses = <<1>>, !.fired = {"animal_breathe", "mammal_inherit"}, !.thoughts = 2],
  !.baseline = [NoTrace EXCEPT
      !.concepts = <<"animal", "dog", "mammal">>, !.retrieved = <<"c_dog">>,
      !.hypotheses = <<1>>, !.fired = {"animal_breathe", "mammal_inherit"}, !.thoughts = 2,
      !.derived = <<<<"animal_breathe", 2>>, <<"mammal_inherit", 1>>, <<"percept", 0>>>>],
  !.accepted = <<1, 10000>>,
  !.goal = "answerquestion"]

\* TAXO-007: Canine Synonym Ambiguity
taxonomy_007 == [EmptyCase EXCEPT
  !.percept = "is a canine a dog",
  !.seeds = <<B("c_canine", "a canine is a dog", 9000), B("c_dog", "a dog is a mammal", 10000)>>,
  !.concepts = <<"animal", "dog">>,
  !.isA = {<<"dog", "animal">>},
  !.relevant = {"a canine is a dog", "a dog is a mammal"},
  !.active = {"a canine is a dog", "a dog is a mammal"},
  !.answer = "a dog is a mammal",
  !.min = 9000,
  !.intent = "maintain_conversation",
  !.golden = [NoTrace EXCEPT
      !.concepts = <<"animal", "dog">>, !.retrieved = <<"c_canine", "c_dog">>,
      !.hypotheses = <<2, 3, 1>>, !.conflicts = <<<<2, 3>>, <<2, 1>>>>],
  !.baseline = [NoTrace EXCEPT
      !.concepts = <<"animal", "dog">>, !.retrieved = <<"c_canine", "c_dog">>,
      !.hypotheses = <<2, 3, 1>>, !.conflicts = <<<<2, 3>>, <<2, 1>>>>,
      !.derived = <<<<"percept", 0>>>>],
  !.accepted = <<2, 10000>>,
  !.goal = "maintainconversation"]

\* TAXO-008: Three-Level Property Spread
taxonomy_008 == [EmptyCase EXCEPT
  !.percept = "the family pet is a dog",
  !.seeds = <<B("c_dog", "a dog is a mammal", 10000)>>,
  !.rules = <<
      R("animal_property", {"warm-blooded animals nurse offspring"}, 5000, "living creatures need oxygen", 8000),
      R("dog_property", {"a dog is a mammal", "the family pet is a dog"}, 5000, "canines bark loudly", 9000),
      R("mammal_property", {"a dog is a mammal"}, 5000, "warm-blooded animals nurse offspring", 8500)>>,
  !.concepts = <<"animal", "dog", "mammal">>,
  !.isA = {<<"dog", "mammal">>, <<"mammal", "animal">>},
  !.relevant = {
      "a dog is a mammal", "canines bark loudly", "living creatures need oxygen",
      "warm-blooded animals nurse offspring"},
  !.active = {
      "canines bark loudly", "warm-blooded animals nurse offspring",
      "living creatures need oxygen"},
  !.min = 9000,
  !.intent = "maintain_conversation",
  !.golden = [NoTrace EXCEPT
      !.concepts = <<"animal", "dog", "mammal">>, !.retrieved = <<"c_dog">>,
      !.hypotheses = <<5, 1, 3, 4, 2>>,
      !.fired = {"animal_property", "dog_property", "mammal_property"},
      !.conflicts = <<<<5, 1>>, <<5, 3>>, <<5, 4>>, <<5, 2>>>>, !.thoughts = 3],
  !.baseline = [NoTrace EXCEPT
      !.concepts = <<"animal", "dog", "mammal">>, !.retrieved = <<"c_dog">>,
      !.hypotheses = <<5, 1, 3, 4, 2>>,
      !.fired = {"animal_property", "dog_property", "mammal_property"},
      !.conflicts = <<<<5, 1>>, <<5, 3>>, <<5, 4>>, <<5, 2>>>>, !.thoughts = 3,
      !.derived = <<<<"animal_property", 3>>, <<"dog_property", 1>>, <<"mammal_property", 2>>, <<"percept", 0>>>>],
  !.accepted = <<5, 10000>>,
  !.goal = "maintainconversation"]

\* TAXO-009: Sparse Knowledge Abstention
taxonomy_009 == [EmptyCase EXCEPT
  !.percept = "what is a platypus",
  !.concepts = <<"mammal", "platypus">>,
  !.isA = {<<"platypus", "mammal">>},
  !.min = 9000,
  !.intent = "maintain_conversation",
  !.golden = [NoTrace EXCEPT !.concepts = <<"mammal", "platypus">>, !.hypotheses = <<1>>],
  !.baseline = [NoTrace EXCEPT
      !.concepts = <<"mammal", "platypus">>, !.hypotheses = <<1>>,
      !.derived = <<<<"percept", 0>>>>],
  !.accepted = <<1, 10000>>,
  !.goal = "maintainconversation"]

\* UNC-001: Rain Confidence at Half
uncertainty_001 == [EmptyCase EXCEPT
  !.percept = "rain is falling",
  !.rules = <<R("rain_wet", {"rain is falling"}, 5000, "The ground is wet", 5000)>>,
  !.relevant = {"The ground is wet"},
  !.active = {"The ground is wet"},
  !.min = 6000,
  !.max = 8500,
  !.golden = [NoTrace EXCEPT !.fired = {"rain_wet"}, !.thoughts = 1]]

\* UNC-002: Cloud Forecast Propagation
uncertainty_002 == [EmptyCase EXCEPT
  !.percept = "clouds gather",
  !.rules = <<
      R("clouds_gather", {"Sky is cloudy", "clouds gather"}, 5000, "Sky is cloudy", 4000)>>,
  !.active = {"Sky is cloudy"},
  !.min = 6000,
  !.max = 8000,
  !.golden = [NoTrace EXCEPT !.fired = {"clouds_gather"}, !.thoughts = 1]]

\* UNC-003: Rain Confidence Propagation
uncertainty_003 == [EmptyCase EXCEPT
  !.percept = "rain is falling",
  !.rules = <<R("weather_rain", {"rain is falling"}, 5000, "The ground is wet", 6000)>>,
  !.relevant = {"The ground is wet"},
  !.active = {"The ground is wet"},
  !.min = 6000,
  !.max = 9000,
  !.golden = [NoTrace EXCEPT !.fired = {"weather_rain"}, !.thoughts = 1]]

\* UNC-004: Weak Signal Propagation
uncertainty_004 == [EmptyCase EXCEPT
  !.percept = "signal detected",
  !.rules = <<
      R("signal_weak", {"Signal is weak", "signal detected"}, 5000, "Signal is weak", 3000)>>,
  !.relevant = {"Signal is weak"},
  !.active = {"Signal is weak"},
  !.min = 5500,
  !.max = 7500,
  !.golden = [NoTrace EXCEPT !.fired = {"signal_weak"}, !.thoughts = 1]]

\* UNC-005: Low-Confidence Premise
uncertainty_005 == [EmptyCase EXCEPT
  !.percept = "market is volatile today",
  !.seeds = <<B("c_market", "market volatile", 5000)>>,
  !.rules = <<
      R("volatile_diversify", {"market is volatile today", "market volatile"}, 5000, "Diversify your portfolio", 9000)>>,
  !.relevant = {"market volatile"},
  !.active = {"Diversify your portfolio"},
  !.golden = [NoTrace EXCEPT
      !.retrieved = <<"c_market">>, !.fired = {"volatile_diversify"}, !.thoughts = 1]]

\* UNC-006: Strong Rule Calibration
uncertainty_006 == [EmptyCase EXCEPT
  !.percept = "a storm is approaching",
  !.rules = <<
      R("storm_weather", {"a storm is approaching"}, 5000, "severe weather is approaching", 9000)>>,
  !.relevant = {"severe weather is approaching"},
  !.active = {"severe weather is approaching"},
  !.min = 9000,
  !.intent = "maintain_conversation",
  !.golden = [NoTrace EXCEPT
      !.hypotheses = <<2, 1>>, !.fired = {"storm_weather"}, !.conflicts = <<<<2, 1>>>>,
      !.thoughts = 1],
  !.baseline = [NoTrace EXCEPT
      !.hypotheses = <<2, 1>>, !.fired = {"storm_weather"}, !.conflicts = <<<<2, 1>>>>,
      !.thoughts = 1, !.derived = <<<<"storm_weather", 1>>, <<"percept", 0>>>>],
  !.accepted = <<2, 9500>>,
  !.goal = "maintainconversation"]

\* UNC-007: Sparse-Evidence Moderate Rule
uncertainty_007 == [EmptyCase EXCEPT
  !.percept = "the fog rolls in",
  !.rules = <<R("fog_visibility", {"the fog rolls in"}, 5000, "visibility is reduced", 4000)>>,
  !.active = {"visibility is reduced"},
  !.min = 6000,
  !.max = 8000,
  !.intent = "maintain_conversation",
  !.golden = [NoTrace EXCEPT !.hypotheses = <<1>>, !.fired = {"fog_visibility"}, !.thoughts = 1],
  !.baseline = [NoTrace EXCEPT
      !.hypotheses = <<1>>, !.fired = {"fog_visibility"}, !.thoughts = 1,
      !.derived = <<<<"fog_visibility", 1>>, <<"percept", 0>>>>],
  !.accepted = <<1, 7000>>,
  !.goal = "maintainconversation"]

\* UNC-008: Weak Rule Calibration
uncertainty_008 == [EmptyCase EXCEPT
  !.percept = "a tremor is felt",
  !.rules = <<
      R("tremor_earth", {"a tremor is felt"}, 5000, "minor earth movement detected", 2000)>>,
  !.relevant = {"minor earth movement detected"},
  !.active = {"minor earth movement detected"},
  !.max = 7000,
  !.intent = "maintain_conversation",
  !.golden = [NoTrace EXCEPT
      !.hypotheses = <<2, 1>>, !.fired = {"tremor_earth"}, !.conflicts = <<<<2, 1>>>>,
      !.thoughts = 1],
  !.baseline = [NoTrace EXCEPT
      !.hypotheses = <<2, 1>>, !.fired = {"tremor_earth"}, !.conflicts = <<<<2, 1>>>>,
      !.thoughts = 1, !.derived = <<<<"tremor_earth", 1>>, <<"percept", 0>>>>],
  !.accepted = <<2, 6000>>,
  !.goal = "maintainconversation"]

\* ALL_CASES
Cases == {
  ambiguity_001, ambiguity_002, ambiguity_003, ambiguity_004, ambiguity_005, ambiguity_006,
  ambiguity_007, ambiguity_008, causal_reasoning_001, causal_reasoning_002,
  causal_reasoning_003, causal_reasoning_004, causal_reasoning_005, causal_reasoning_006,
  causal_reasoning_007, causal_reasoning_008, causal_reasoning_009, causal_reasoning_010,
  commonsense_001, commonsense_002, commonsense_003, commonsense_004, commonsense_005,
  commonsense_006, commonsense_007, contradiction_001, contradiction_002, contradiction_003,
  contradiction_004, contradiction_005, contradiction_006, contradiction_007,
  contradiction_008, contradiction_009, taxonomy_001, taxonomy_002, taxonomy_003,
  taxonomy_004, taxonomy_005, taxonomy_006, taxonomy_007, taxonomy_008, taxonomy_009,
  uncertainty_001, uncertainty_002, uncertainty_003, uncertainty_004, uncertainty_005,
  uncertainty_006, uncertainty_007, uncertainty_008}
=============================================================================

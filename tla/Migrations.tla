------------------------------- MODULE Migrations -------------------------------
(***************************************************************************)
(* The two revisions of the schema: what 0001 creates and drops, in its    *)
(* order, and the rows 0002 inserts and deletes.  A migration describes    *)
(* its tables itself and shares nothing with the mapped classes, which may *)
(* have moved on.                                                          *)
(***************************************************************************)
EXTENDS SequencesExt

Mapped == INSTANCE Models   \* here for the form of a table only

-----------------------------------------------------------------------------
(* What 0001 creates *)

EnumValues ==
  [bundesland |-> {"BW", "BY", "BE", "BB", "HB", "HH", "HE", "MV", "NI", "NW", "RP", "SL", "SN",
                   "ST", "SH", "TH"},
   charging_category |-> {"normal", "fast", "ultra_fast"},
   connector_type |-> {"type2", "ccs", "chademo", "schuko", "tesla", "cee", "other", "unknown"},
   current_type |-> {"ac", "dc", "unknown"},
   data_origin |-> {"official", "simulated", "derived"},
   energy_intensity |-> {"low", "medium", "high", "critical"},
   ingestion_outcome |-> {"success", "partial", "failed"},
   provider_mode |-> {"live", "cache", "fixture"},
   road_class |-> {"motorway", "trunk", "primary", "secondary", "tertiary", "residential",
                   "service", "unknown"},
   simulation_state |-> {"pending", "running", "paused", "stopping", "stopped", "completed",
                         "failed"},
   source_system |-> {"bundesnetzagentur", "dwd", "autobahn", "mobilithek", "osm", "osrm",
                      "simulator", "derived"},
   traffic_event_type |-> {"roadworks", "closure", "incident", "warning", "congestion", "other"},
   traffic_severity |-> {"low", "moderate", "high", "severe"},
   vehicle_class |-> {"compact", "sedan", "performance", "suv", "van"},
   vehicle_state |-> {"idle", "driving", "charging", "stopped", "completed"},
   weather_condition |-> {"clear", "clouds", "rain", "snow", "fog", "storm", "unknown"}]

AuditColumns == [required |-> {"created_at", "updated_at"}]

\* A bug RunReference guards against: pruning a run takes what it ingested.
RunReferenceCascading == Mapped!Ref("ingestion_run_id", "data_ingestion_runs", "CASCADE")

RunReference == Mapped!Ref("ingestion_run_id", "data_ingestion_runs", "SET NULL")

ProvenanceColumns ==
  [required |-> {"source", "data_origin", "ingested_at"},
   optional |-> {"source_identifier", "source_url", "source_timestamp", "ingestion_run_id"},
   enums |-> {<<"source", "source_system">>, <<"data_origin", "data_origin">>},
   refs |-> {RunReference}]

DataIngestionRuns == Mapped!Combined({},
    [required |-> {"id", "source", "pipeline", "started_at", "status", "provider_mode",
                   "rows_received", "rows_accepted", "rows_rejected", "rows_duplicate",
                   "created_at"},
     optional |-> {"finished_at", "bytes_downloaded", "source_url", "source_file_sha256",
                   "error_message", "quality_report"},
     enums |-> {<<"source", "source_system">>, <<"status", "ingestion_outcome">>,
                <<"provider_mode", "provider_mode">>},
     indexes |-> {<<"source", "started_at">>}])

MlModels == Mapped!Combined({AuditColumns},
    [required |-> {"id", "name", "version", "algorithm", "trained_at", "training_rows",
                   "feature_names", "metrics", "artifact_path", "is_active",
                   "training_data_origin"},
     optional |-> {"notes"},
     enums |-> {<<"training_data_origin", "data_origin">>},
     unique |-> {{"name", "version"}}])

SimulationRuns == Mapped!Combined({AuditColumns},
    [required |-> {"id", "name", "state", "vehicle_count", "speed_factor", "weather_mode",
                   "traffic_intensity", "vehicle_mix", "route_slugs", "seed", "events_emitted",
                   "errors", "config"},
     optional |-> {"started_at", "stopped_at"},
     enums |-> {<<"state", "simulation_state">>}])

Telemetry == Mapped!Combined({},
    [required |-> {"id", "vehicle_id", "recorded_at", "location", "speed_kmh", "acceleration_ms2",
                   "battery_soc_percent", "battery_temperature_c", "outside_temperature_c",
                   "instantaneous_power_kw", "energy_consumption_kwh_100km",
                   "cumulative_energy_kwh", "estimated_range_km", "road_class", "odometer_m",
                   "state", "data_origin", "ingested_at"},
     optional |-> {"trip_id", "route_id", "heading_deg", "speed_limit_kmh"},
     enums |-> {<<"road_class", "road_class">>, <<"state", "vehicle_state">>,
                <<"data_origin", "data_origin">>},
     indexes |-> {<<"location">>, <<"recorded_at">>, <<"trip_id">>,
                  <<"vehicle_id", "recorded_at">>}])

VehicleModels == Mapped!Combined({AuditColumns},
    [required |-> {"id", "code", "display_name", "vehicle_class", "battery_capacity_kwh",
                   "usable_capacity_kwh", "nominal_consumption_kwh_100km", "max_dc_power_kw",
                   "max_ac_power_kw", "mass_kg", "drag_coefficient", "frontal_area_m2",
                   "rolling_resistance", "is_generic"},
     enums |-> {<<"vehicle_class", "vehicle_class">>},
     unique |-> {{"code"}}])

WeatherStations == Mapped!Combined({AuditColumns},
    [required |-> {"id", "dwd_station_id", "name", "location"},
     optional |-> {"elevation_m", "bundesland", "valid_from", "valid_to"},
     enums |-> {<<"bundesland", "bundesland">>},
     unique |-> {{"dwd_station_id"}},
     indexes |-> {<<"location">>}])

ChargingStations == Mapped!Combined({ProvenanceColumns, AuditColumns},
    [required |-> {"id", "external_id", "country", "location", "charging_points_count",
                   "charging_category", "is_fast_charger"},
     optional |-> {"operator", "street", "house_number", "postal_code", "city", "bundesland",
                   "commissioned_on", "max_power_kw", "total_power_kw", "raw"},
     enums |-> {<<"bundesland", "bundesland">>, <<"charging_category", "charging_category">>},
     unique |-> {{"external_id"}},
     indexes |-> {<<"bundesland">>, <<"charging_category">>, <<"location">>, <<"max_power_kw">>,
                  <<"operator">>}])

MlPredictions == Mapped!Combined({},
    [required |-> {"id", "features", "prediction_kwh_100km", "created_at"},
     optional |-> {"ml_model_id", "route_id", "trip_id", "baseline_kwh_100km", "shap_values",
                   "context"},
     refs |-> {Mapped!Ref("ml_model_id", "ml_models", "SET NULL")}])

Routes == Mapped!Combined({ProvenanceColumns, AuditColumns},
    [required |-> {"id", "name", "origin_name", "destination_name", "origin", "destination",
                   "geometry", "distance_m", "duration_s", "routing_profile", "is_demo"},
     optional |-> {"slug"},
     unique |-> {{"slug"}},
     indexes |-> {<<"geometry">>}])

TrafficEvents == Mapped!Combined({ProvenanceColumns, AuditColumns},
    [required |-> {"id", "event_type", "severity", "title", "location", "geometry", "is_blocked"},
     optional |-> {"external_id", "road_name", "direction", "description", "starts_at", "ends_at",
                   "delay_minutes", "raw"},
     enums |-> {<<"event_type", "traffic_event_type">>, <<"severity", "traffic_severity">>},
     unique |-> {{"external_id"}},
     indexes |-> {<<"event_type">>, <<"location">>, <<"road_name">>, <<"starts_at">>}])

Vehicles == Mapped!Combined({ProvenanceColumns, AuditColumns},
    [required |-> {"id", "vehicle_id", "vehicle_model_id", "state"},
     optional |-> {"simulation_run_id"},
     enums |-> {<<"state", "vehicle_state">>},
     unique |-> {{"vehicle_id"}},
     refs |-> {Mapped!Ref("simulation_run_id", "simulation_runs", "SET NULL"), Mapped!Ref("vehicle_model_id",
               "vehicle_models", "RESTRICT")}])

WeatherObservations == Mapped!Combined({ProvenanceColumns, AuditColumns},
    [required |-> {"id", "observed_at", "location", "condition"},
     optional |-> {"weather_station_id", "temperature_c", "precipitation_mm", "wind_speed_ms",
                   "wind_gust_ms", "humidity_percent", "pressure_hpa"},
     enums |-> {<<"condition", "weather_condition">>},
     unique |-> {{"weather_station_id", "observed_at"}},
     refs |-> {Mapped!Ref("weather_station_id", "weather_stations", "SET NULL")},
     indexes |-> {<<"location">>, <<"observed_at">>}])

ChargingPoints == Mapped!Combined({ProvenanceColumns, AuditColumns},
    [required |-> {"id", "station_id", "ordinal", "connector_type", "current_type"},
     optional |-> {"power_kw", "public_key"},
     enums |-> {<<"connector_type", "connector_type">>, <<"current_type", "current_type">>},
     refs |-> {Mapped!Ref("station_id", "charging_stations", "CASCADE")},
     indexes |-> {<<"station_id">>}])

RouteSegments == Mapped!Combined({AuditColumns},
    [required |-> {"id", "route_id", "ordinal", "geometry", "start_offset_m", "distance_m",
                   "road_class"},
     optional |-> {"speed_limit_kmh", "assumed_speed_kmh", "elevation_gain_m", "temperature_c",
                   "traffic_severity", "predicted_kwh_per_100km", "predicted_kwh",
                   "energy_intensity"},
     enums |-> {<<"road_class", "road_class">>, <<"traffic_severity", "traffic_severity">>,
                <<"energy_intensity", "energy_intensity">>},
     unique |-> {{"route_id", "ordinal"}},
     refs |-> {Mapped!Ref("route_id", "routes", "CASCADE")},
     indexes |-> {<<"geometry">>}])

Trips == Mapped!Combined({ProvenanceColumns, AuditColumns},
    [required |-> {"id", "trip_id", "vehicle_id", "started_at", "start_soc_percent", "distance_m",
                   "energy_kwh", "state"},
     optional |-> {"route_id", "ended_at", "end_soc_percent", "avg_consumption_kwh_100km"},
     enums |-> {<<"state", "vehicle_state">>},
     unique |-> {{"trip_id"}},
     refs |-> {Mapped!Ref("route_id", "routes", "SET NULL"), Mapped!Ref("vehicle_id", "vehicles", "CASCADE")},
     indexes |-> {<<"vehicle_id", "started_at">>}])

Created ==
  [data_ingestion_runs |-> DataIngestionRuns, ml_models |-> MlModels,
   simulation_runs |-> SimulationRuns, telemetry |-> Telemetry,
   vehicle_models |-> VehicleModels, weather_stations |-> WeatherStations,
   charging_stations |-> ChargingStations, ml_predictions |-> MlPredictions,
   routes |-> Routes, traffic_events |-> TrafficEvents, vehicles |-> Vehicles,
   weather_observations |-> WeatherObservations, charging_points |-> ChargingPoints,
   route_segments |-> RouteSegments, trips |-> Trips]

-----------------------------------------------------------------------------
(* The order of the statements *)

CreateOrder ==
  <<"data_ingestion_runs", "ml_models", "simulation_runs", "telemetry", "vehicle_models",
    "weather_stations", "charging_stations", "ml_predictions", "routes", "traffic_events",
    "vehicles", "weather_observations", "charging_points", "route_segments", "trips">>

\* A bug DropOrder guards against: the tables are dropped in the order of their creation.
DropOrderOfCreation == CreateOrder

DropOrder ==
  <<"trips", "route_segments", "charging_points", "weather_observations", "vehicles",
    "traffic_events", "routes", "ml_predictions", "charging_stations", "weather_stations",
    "vehicle_models", "telemetry", "simulation_runs", "ml_models", "data_ingestion_runs">>

\* The indexes downgrade() drops by name before their table.
DroppedIndexes ==
  [trips |-> {<<"vehicle_id", "started_at">>}, route_segments |-> {<<"geometry">>},
   charging_points |-> {<<"station_id">>}, weather_observations |-> {<<"observed_at">>, <<"location">>},
   traffic_events |-> {<<"starts_at">>, <<"road_name">>, <<"location">>, <<"event_type">>},
   routes |-> {<<"geometry">>},
   charging_stations |-> {<<"operator">>, <<"max_power_kw">>, <<"location">>,
                          <<"charging_category">>, <<"bundesland">>},
   weather_stations |-> {<<"location">>},
   telemetry |-> {<<"vehicle_id", "recorded_at">>, <<"trip_id">>, <<"recorded_at">>, <<"location">>},
   data_ingestion_runs |-> {<<"source", "started_at">>}]

Statement(kind, table) == [kind |-> kind, table |-> table]

\* A revision is a transaction of statements in either direction.
InitialSchema ==
  [to |-> "0001",
   statements |-> <<Statement("create types", "")>>
                    \o [i \in DOMAIN CreateOrder |-> Statement("create table", CreateOrder[i])]]

DropSchema ==
  [to |-> "base",
   statements |->
     FlattenSeq([i \in DOMAIN DropOrder |->
       (IF DropOrder[i] \in DOMAIN DroppedIndexes
        THEN <<Statement("drop indexes", DropOrder[i])>> ELSE <<>>)
         \o <<Statement("drop table", DropOrder[i])>>])
       \o <<Statement("drop types", "")>>]

Seed == [to |-> "0002", statements |-> <<Statement("insert profiles", "vehicle_models")>>]

DropSeed == [to |-> "0001", statements |-> <<Statement("delete profiles", "vehicle_models")>>]

\* What alembic may run at a revision: the next one, or the way back.
RunsAt(revision) ==
  IF revision = "base" THEN {InitialSchema}
  ELSE IF revision = "0001" THEN {Seed, DropSchema}
  ELSE {DropSeed}
=============================================================================

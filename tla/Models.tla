--------------------------------- MODULE Models ---------------------------------
(***************************************************************************)
(* The tables as the program maps them: for every class its columns, the   *)
(* ones that must have a value, the enumeration each column is of, unique  *)
(* keys, references and indexes.  Column types other than enumerations and *)
(* the server's defaults are left out; an index stands for its columns,    *)
(* which its name lists.                                                   *)
(***************************************************************************)
EXTENDS TLC

-----------------------------------------------------------------------------
(* Enumerations, by the values they are stored as *)

SourceSystem == {"bundesnetzagentur", "dwd", "autobahn", "mobilithek", "osm", "osrm", "simulator",
                 "derived"}
DataOrigin == {"official", "simulated", "derived"}
IngestionOutcome == {"success", "partial", "failed"}
ProviderMode == {"live", "cache", "fixture"}
ChargingCategory == {"normal", "fast", "ultra_fast"}
ConnectorType == {"type2", "ccs", "chademo", "schuko", "tesla", "cee", "other", "unknown"}
CurrentType == {"ac", "dc", "unknown"}
Bundesland == {"BW", "BY", "BE", "BB", "HB", "HH", "HE", "MV", "NI", "NW", "RP", "SL", "SN", "ST",
               "SH", "TH"}
WeatherCondition == {"clear", "clouds", "rain", "snow", "fog", "storm", "unknown"}
TrafficEventType == {"roadworks", "closure", "incident", "warning", "congestion", "other"}
TrafficSeverity == {"low", "moderate", "high", "severe"}
RoadClass == {"motorway", "trunk", "primary", "secondary", "tertiary", "residential", "service",
              "unknown"}
EnergyIntensity == {"low", "medium", "high", "critical"}
VehicleClass == {"compact", "sedan", "performance", "suv", "van"}
SimulationState == {"pending", "running", "paused", "stopping", "stopped", "completed", "failed"}
VehicleState == {"idle", "driving", "charging", "stopped", "completed"}

\* The name each has in the database.
EnumTypes ==
  [source_system |-> SourceSystem, data_origin |-> DataOrigin, ingestion_outcome |->
   IngestionOutcome, provider_mode |-> ProviderMode, charging_category |-> ChargingCategory,
   connector_type |-> ConnectorType, current_type |-> CurrentType, bundesland |-> Bundesland,
   weather_condition |-> WeatherCondition, traffic_event_type |-> TrafficEventType,
   traffic_severity |-> TrafficSeverity, road_class |-> RoadClass, energy_intensity |->
   EnergyIntensity, vehicle_class |-> VehicleClass, simulation_state |-> SimulationState,
   vehicle_state |-> VehicleState]

-----------------------------------------------------------------------------
(* Tables *)

Parts == {"required", "optional", "enums", "unique", "refs", "indexes"}

\* A table from the columns it shares with others and its own; what a part leaves out is
\* empty.
Combined(shared, own) ==
  LET of(part, field) == IF field \in DOMAIN part THEN part[field] ELSE {}
  IN  [field \in Parts |-> UNION {of(part, field) : part \in shared \cup {own}}]

Ref(column, table, onDelete) == [column |-> column, table |-> table, onDelete |-> onDelete]

Columns(table) == table.required \cup table.optional

UuidPrimaryKey == [required |-> {"id"}]

CreatedAt == [required |-> {"created_at"}]

Timestamps == [required |-> {"created_at", "updated_at"}]

\* Where a row came from.  Pruning the runs "must never take the ingested data with it".
Provenance ==
  [required |-> {"source", "data_origin", "ingested_at"},
   optional |-> {"source_identifier", "source_url", "source_timestamp", "ingestion_run_id"},
   enums |-> {<<"source", "source_system">>, <<"data_origin", "data_origin">>},
   refs |-> {Ref("ingestion_run_id", "data_ingestion_runs", "SET NULL")}]

DataIngestionRun == Combined({UuidPrimaryKey, CreatedAt},
    [required |-> {"source", "pipeline", "started_at", "status", "provider_mode", "rows_received",
                   "rows_accepted", "rows_rejected", "rows_duplicate"},
     optional |-> {"finished_at", "bytes_downloaded", "source_url", "source_file_sha256",
                   "error_message", "quality_report"},
     enums |-> {<<"source", "source_system">>, <<"status", "ingestion_outcome">>,
                <<"provider_mode", "provider_mode">>},
     indexes |-> {<<"source", "started_at">>}])

ChargingStation == Combined({UuidPrimaryKey, Provenance, Timestamps},
    [required |-> {"external_id", "country", "location", "charging_points_count",
                   "charging_category", "is_fast_charger"},
     optional |-> {"operator", "street", "house_number", "postal_code", "city", "bundesland",
                   "commissioned_on", "max_power_kw", "total_power_kw", "raw"},
     enums |-> {<<"bundesland", "bundesland">>, <<"charging_category", "charging_category">>},
     unique |-> {{"external_id"}},
     indexes |-> {<<"location">>, <<"bundesland">>, <<"charging_category">>, <<"max_power_kw">>,
                  <<"operator">>}])

ChargingPoint == Combined({UuidPrimaryKey, Provenance, Timestamps},
    [required |-> {"station_id", "ordinal", "connector_type", "current_type"},
     optional |-> {"power_kw", "public_key"},
     enums |-> {<<"connector_type", "connector_type">>, <<"current_type", "current_type">>},
     refs |-> {Ref("station_id", "charging_stations", "CASCADE")},
     indexes |-> {<<"station_id">>}])

WeatherStation == Combined({UuidPrimaryKey, Timestamps},
    [required |-> {"dwd_station_id", "name", "location"},
     optional |-> {"elevation_m", "bundesland", "valid_from", "valid_to"},
     enums |-> {<<"bundesland", "bundesland">>},
     unique |-> {{"dwd_station_id"}},
     indexes |-> {<<"location">>}])

WeatherObservation == Combined({UuidPrimaryKey, Provenance, Timestamps},
    [required |-> {"observed_at", "location", "condition"},
     optional |-> {"weather_station_id", "temperature_c", "precipitation_mm", "wind_speed_ms",
                   "wind_gust_ms", "humidity_percent", "pressure_hpa"},
     enums |-> {<<"condition", "weather_condition">>},
     unique |-> {{"weather_station_id", "observed_at"}},
     refs |-> {Ref("weather_station_id", "weather_stations", "SET NULL")},
     indexes |-> {<<"location">>, <<"observed_at">>}])

TrafficEvent == Combined({UuidPrimaryKey, Provenance, Timestamps},
    [required |-> {"event_type", "severity", "title", "location", "is_blocked"},
     optional |-> {"external_id", "road_name", "direction", "description", "geometry",
                   "starts_at", "ends_at", "delay_minutes", "raw"},
     enums |-> {<<"event_type", "traffic_event_type">>, <<"severity", "traffic_severity">>},
     unique |-> {{"external_id"}},
     indexes |-> {<<"location">>, <<"event_type">>, <<"starts_at">>, <<"road_name">>}])

Route == Combined({UuidPrimaryKey, Provenance, Timestamps},
    [required |-> {"name", "origin_name", "destination_name", "origin", "destination", "geometry",
                   "distance_m", "duration_s", "routing_profile", "is_demo"},
     optional |-> {"slug"},
     unique |-> {{"slug"}},
     indexes |-> {<<"geometry">>}])

RouteSegment == Combined({UuidPrimaryKey, Timestamps},
    [required |-> {"route_id", "ordinal", "geometry", "start_offset_m", "distance_m",
                   "road_class"},
     optional |-> {"speed_limit_kmh", "assumed_speed_kmh", "elevation_gain_m", "temperature_c",
                   "traffic_severity", "predicted_kwh_per_100km", "predicted_kwh",
                   "energy_intensity"},
     enums |-> {<<"road_class", "road_class">>, <<"traffic_severity", "traffic_severity">>,
                <<"energy_intensity", "energy_intensity">>},
     unique |-> {{"route_id", "ordinal"}},
     refs |-> {Ref("route_id", "routes", "CASCADE")},
     indexes |-> {<<"geometry">>}])

VehicleModel == Combined({UuidPrimaryKey, Timestamps},
    [required |-> {"code", "display_name", "vehicle_class", "battery_capacity_kwh",
                   "usable_capacity_kwh", "nominal_consumption_kwh_100km", "max_dc_power_kw",
                   "max_ac_power_kw", "mass_kg", "drag_coefficient", "frontal_area_m2",
                   "rolling_resistance", "is_generic"},
     enums |-> {<<"vehicle_class", "vehicle_class">>},
     unique |-> {{"code"}}])

Vehicle == Combined({UuidPrimaryKey, Provenance, Timestamps},
    [required |-> {"vehicle_id", "vehicle_model_id", "state"},
     optional |-> {"simulation_run_id"},
     enums |-> {<<"state", "vehicle_state">>},
     unique |-> {{"vehicle_id"}},
     refs |-> {Ref("vehicle_model_id", "vehicle_models", "RESTRICT"), Ref("simulation_run_id",
               "simulation_runs", "SET NULL")}])

Trip == Combined({UuidPrimaryKey, Provenance, Timestamps},
    [required |-> {"trip_id", "vehicle_id", "started_at", "start_soc_percent", "distance_m",
                   "energy_kwh", "state"},
     optional |-> {"route_id", "ended_at", "end_soc_percent", "avg_consumption_kwh_100km"},
     enums |-> {<<"state", "vehicle_state">>},
     unique |-> {{"trip_id"}},
     refs |-> {Ref("vehicle_id", "vehicles", "CASCADE"), Ref("route_id", "routes", "SET NULL")},
     indexes |-> {<<"vehicle_id", "started_at">>}])

Telemetry == Combined({},
    [required |-> {"id", "vehicle_id", "recorded_at", "location", "speed_kmh", "acceleration_ms2",
                   "battery_soc_percent", "battery_temperature_c", "outside_temperature_c",
                   "instantaneous_power_kw", "energy_consumption_kwh_100km",
                   "cumulative_energy_kwh", "estimated_range_km", "road_class", "odometer_m",
                   "state", "data_origin", "ingested_at"},
     optional |-> {"trip_id", "route_id", "heading_deg", "speed_limit_kmh"},
     enums |-> {<<"road_class", "road_class">>, <<"state", "vehicle_state">>,
                <<"data_origin", "data_origin">>},
     indexes |-> {<<"vehicle_id", "recorded_at">>, <<"recorded_at">>, <<"trip_id">>,
                  <<"location">>}])

SimulationRun == Combined({UuidPrimaryKey, Timestamps},
    [required |-> {"name", "state", "vehicle_count", "speed_factor", "weather_mode",
                   "traffic_intensity", "vehicle_mix", "route_slugs", "seed", "events_emitted",
                   "errors", "config"},
     optional |-> {"started_at", "stopped_at"},
     enums |-> {<<"state", "simulation_state">>}])

MLModel == Combined({UuidPrimaryKey, Timestamps},
    [required |-> {"name", "version", "algorithm", "trained_at", "training_rows", "feature_names",
                   "metrics", "artifact_path", "is_active", "training_data_origin"},
     optional |-> {"notes"},
     enums |-> {<<"training_data_origin", "data_origin">>},
     unique |-> {{"name", "version"}}])

MLPrediction == Combined({UuidPrimaryKey, CreatedAt},
    [required |-> {"features", "prediction_kwh_100km"},
     optional |-> {"ml_model_id", "route_id", "trip_id", "baseline_kwh_100km", "shap_values",
                   "context"},
     refs |-> {Ref("ml_model_id", "ml_models", "SET NULL")}])

Tables ==
  [data_ingestion_runs |-> DataIngestionRun, charging_stations |-> ChargingStation,
   charging_points |-> ChargingPoint, weather_stations |-> WeatherStation,
   weather_observations |-> WeatherObservation, traffic_events |-> TrafficEvent,
   routes |-> Route, route_segments |-> RouteSegment, vehicle_models |-> VehicleModel,
   vehicles |-> Vehicle, trips |-> Trip, telemetry |-> Telemetry,
   simulation_runs |-> SimulationRun, ml_models |-> MLModel, ml_predictions |-> MLPrediction]

\* The collections that live and die with their owner ("all, delete-orphan").
Owned ==
  {<<"charging_stations", "charging_points">>, <<"routes", "route_segments">>,
   <<"vehicles", "trips">>}
=============================================================================
